---- MODULE Spec2Model ----
(***************************************************************************)
(* Verification model of the DC Label Generator (src/app.py).              *)
(*                                                                         *)
(* Numbers.  Every numeric value of the program is a Python float or a     *)
(* Python int that came out of safe_numeric (float(value), narrowed to int *)
(* when integral).  A number is modelled by its exact value                *)
(*        (-1)^neg * m * 2^e ,   m odd (or m = 0, e = 0),                  *)
(* where m is an arbitrary-precision natural kept as a little-endian       *)
(* sequence of 15-bit limbs.  Arithmetic that Python performs on floats    *)
(* (the division in calculate_case_labels_needed, the subtraction in       *)
(* calculate_individual_case_quantities, float(str)) is rounded to a       *)
(* 53-bit significand, round-half-to-even, as IEEE-754 binary64 does.      *)
(* Exponent range (overflow, subnormals) is not modelled: the values used  *)
(* stay far from both ends.                                                *)
(*                                                                         *)
(* Values.  Every dynamically typed value is a record with a field kind:   *)
(*   [kind |-> "none"]              None / NaN / a missing CSV cell        *)
(*   [kind |-> "str", s |-> cps]    a string, cps its Unicode code points  *)
(*   [kind |-> "num", neg, m, e]    a number                               *)
(***************************************************************************)
EXTENDS Integers, Sequences, FiniteSets, TLC

-----------------------------------------------------------------------------
(* Arbitrary-precision naturals: little-endian limbs, no high zero limb.   *)

LimbBits == 15
Base == 32768
FloatPrecision == 53

Min(a, b) == IF a < b THEN a ELSE b
Max(a, b) == IF a > b THEN a ELSE b

RECURSIVE Pow2(_)
Pow2(k) == IF k = 0 THEN 1 ELSE 2 * Pow2(k - 1)

RECURSIVE BTrim(_)
BTrim(a) == IF a = <<>> THEN <<>>
            ELSE IF a[Len(a)] = 0 THEN BTrim(SubSeq(a, 1, Len(a) - 1))
            ELSE a

RECURSIVE BFromInt(_)
BFromInt(n) == IF n = 0 THEN <<>> ELSE <<n % Base>> \o BFromInt(n \div Base)

RECURSIVE BToInt(_)
BToInt(a) == IF a = <<>> THEN 0 ELSE a[1] + Base * BToInt(Tail(a))

RECURSIVE BCmpAt(_, _, _)
BCmpAt(a, b, i) == IF i = 0 THEN 0
                   ELSE IF a[i] > b[i] THEN 1
                   ELSE IF a[i] < b[i] THEN -1
                   ELSE BCmpAt(a, b, i - 1)

BCmp(a, b) == IF Len(a) > Len(b) THEN 1
              ELSE IF Len(a) < Len(b) THEN -1
              ELSE BCmpAt(a, b, Len(a))

RECURSIVE BAddC(_, _, _)
BAddC(a, b, c) ==
    IF a = <<>> /\ b = <<>> THEN (IF c = 0 THEN <<>> ELSE <<c>>)
    ELSE LET x == (IF a = <<>> THEN 0 ELSE a[1]) + (IF b = <<>> THEN 0 ELSE b[1]) + c
         IN  <<x % Base>> \o BAddC(IF a = <<>> THEN <<>> ELSE Tail(a),
                                   IF b = <<>> THEN <<>> ELSE Tail(b),
                                   x \div Base)

BAdd(a, b) == BAddC(a, b, 0)

RECURSIVE BSubB(_, _, _)
BSubB(a, b, br) ==
    IF a = <<>> THEN <<>>
    ELSE LET x == a[1] - (IF b = <<>> THEN 0 ELSE b[1]) - br
         IN  <<x % Base>> \o BSubB(Tail(a),
                                   IF b = <<>> THEN <<>> ELSE Tail(b),
                                   IF x < 0 THEN 1 ELSE 0)

\* a - b for a >= b
BSub(a, b) == BTrim(BSubB(a, b, 0))

RECURSIVE IntBitLen(_)
IntBitLen(n) == IF n = 0 THEN 0 ELSE 1 + IntBitLen(n \div 2)

BBitLen(a) == IF a = <<>> THEN 0
              ELSE LimbBits * (Len(a) - 1) + IntBitLen(a[Len(a)])

\* bit i (0 = least significant) of a
BBit(a, i) == LET l == (i \div LimbBits) + 1
              IN  IF l > Len(a) THEN 0
                  ELSE (a[l] \div Pow2(i % LimbBits)) % 2

RECURSIVE BMulSmallC(_, _, _)
BMulSmallC(a, f, c) ==
    IF a = <<>> THEN (IF c = 0 THEN <<>> ELSE <<c>>)
    ELSE LET x == a[1] * f + c
         IN  <<x % Base>> \o BMulSmallC(Tail(a), f, x \div Base)

\* a * f for a factor 0 < f <= Base
BMulSmall(a, f) == BMulSmallC(a, f, 0)

\* a * 2^k
BShl(a, k) == IF a = <<>> THEN <<>>
              ELSE [i \in 1..(k \div LimbBits) |-> 0]
                   \o BMulSmall(a, Pow2(k % LimbBits))

\* floor(a / 2^k)
BShr(a, k) ==
    LET d == k \div LimbBits
        s == k % LimbBits
        p == Pow2(s)
        hi == Pow2(LimbBits - s)
        r == IF d >= Len(a) THEN <<>> ELSE SubSeq(a, d + 1, Len(a))
    IN  BTrim([i \in 1..Len(r) |->
                 (r[i] \div p) + (IF i < Len(r) THEN (r[i + 1] % p) * hi ELSE 0)])

\* the low k bits of a are all zero
BLowZero(a, k) == BShl(BShr(a, k), k) = a

RECURSIVE IntTz(_)
IntTz(n) == IF n % 2 = 1 THEN 0 ELSE 1 + IntTz(n \div 2)

RECURSIVE BTz(_)
\* number of trailing zero bits of a # 0
BTz(a) == IF a[1] = 0 THEN LimbBits + BTz(Tail(a)) ELSE IntTz(a[1])

DivChunk == 8

RECURSIVE BDivStep(_, _, _, _, _, _)
\* binary long division over the bits i, i-1, ..., lo of a
BDivStep(a, b, i, lo, q, r) ==
    IF i < lo THEN <<q, r>>
    ELSE LET r2 == BAddC(r, r, BBit(a, i))
             ge == BCmp(r2, b) >= 0
         IN  BDivStep(a, b, i - 1, lo,
                      BAddC(q, q, IF ge THEN 1 ELSE 0),
                      IF ge THEN BSub(r2, b) ELSE r2)

RECURSIVE BDivChunks(_, _, _, _)
\* the same division, DivChunk bits at a time (keeps the recursion shallow)
BDivChunks(a, b, i, qr) ==
    IF i < 0 THEN qr
    ELSE LET lo == Max(0, i - DivChunk + 1)
             nx == BDivStep(a, b, i, lo, qr[1], qr[2])
         IN  IF Len(nx) = 2 THEN BDivChunks(a, b, lo - 1, nx) ELSE nx

\* <<floor(a / b), a mod b>> for b # 0
BDivMod(a, b) == BDivChunks(a, b, BBitLen(a) - 1, <<<<>>, <<>>>>)

-----------------------------------------------------------------------------
(* Floats.                                                                 *)

FZero == [kind |-> "num", neg |-> FALSE, m |-> <<>>, e |-> 0]

\* canonical form of (-1)^neg * m * 2^e
FNorm(neg, m, e) ==
    IF m = <<>> THEN FZero
    ELSE LET tz == BTz(m)
         IN  [kind |-> "num", neg |-> neg, m |-> BShr(m, tz), e |-> e + tz]

\* round (m [+ a nonzero fraction if sticky]) * 2^e to FloatPrecision bits,
\* half to even
FRound(neg, m, e, sticky) ==
    LET L == BBitLen(m) IN
    IF L <= FloatPrecision THEN FNorm(neg, m, e)
    ELSE LET s == L - FloatPrecision
             keep == BShr(m, s)
             guard == BBit(m, s - 1)
             low == sticky \/ ~BLowZero(m, s - 1)
             up == guard = 1 /\ (low \/ BBit(keep, 0) = 1)
         IN  FNorm(neg, IF up THEN BAdd(keep, <<1>>) ELSE keep, e + s)

FromInt(n) == IF n < 0 THEN FNorm(TRUE, BFromInt(-n), 0)
              ELSE FNorm(FALSE, BFromInt(n), 0)

FLeZero(x) == x.m = <<>> \/ x.neg
FGtZero(x) == ~FLeZero(x)

\* x >= y for x, y >= 0
FGe(x, y) ==
    LET e0 == Min(x.e, y.e)
    IN  BCmp(BShl(x.m, x.e - e0), BShl(y.m, y.e - e0)) >= 0

\* x - y for x >= y >= 0 (float subtraction)
FSub(x, y) ==
    LET e0 == Min(x.e, y.e)
    IN  FRound(FALSE, BSub(BShl(x.m, x.e - e0), BShl(y.m, y.e - e0)), e0, FALSE)

\* x + y for x, y >= 0 (float addition)
FAdd(x, y) ==
    LET e0 == Min(x.e, y.e)
    IN  FRound(FALSE, BAdd(BShl(x.m, x.e - e0), BShl(y.m, y.e - e0)), e0, FALSE)

\* x / y for y # 0 (float true division, also int / int)
FDivRound(neg, qr, e) == FRound(neg, qr[1], e, qr[2] # <<>>)
FDivScaled(x, y, k) == FDivRound(x.neg # y.neg, BDivMod(BShl(x.m, k), y.m), x.e - y.e - k)
FDiv(x, y) ==
    IF x.m = <<>> THEN FZero
    ELSE FDivScaled(x, y, Max(0, FloatPrecision + 3 + BBitLen(y.m) - BBitLen(x.m)))

FIsIntegral(x) == x.e >= 0

\* int(x): truncation toward zero
FTrunc(x) ==
    LET a == IF x.e >= 0 THEN BToInt(BShl(x.m, x.e)) ELSE BToInt(BShr(x.m, -x.e))
    IN  IF x.neg THEN -a ELSE a

\* math.ceil(x)
FCeil(x) == IF FIsIntegral(x) \/ x.neg THEN FTrunc(x) ELSE FTrunc(x) + 1

-----------------------------------------------------------------------------
(* Values and text.                                                        *)

None == [kind |-> "none"]
Str(cps) == [kind |-> "str", s |-> cps]

\* pd.isna(value) or value is None
IsNa(v) == v.kind = "none"

IsSpace(c) == c \in {32, 9, 10, 11, 12, 13}
IsDigit(c) == c >= 48 /\ c <= 57

RECURSIVE LStrip(_)
LStrip(t) == IF t # <<>> /\ IsSpace(t[1]) THEN LStrip(Tail(t)) ELSE t

RECURSIVE RStrip(_)
RStrip(t) == IF t # <<>> /\ IsSpace(t[Len(t)])
             THEN RStrip(SubSeq(t, 1, Len(t) - 1)) ELSE t

\* str.strip()
Strip(t) == RStrip(LStrip(t))

RECURSIVE Pow10(_)
Pow10(k) == IF k = 0 THEN 1 ELSE 10 * Pow10(k - 1)

RECURSIVE DigitsValue(_)
\* the natural number written by a sequence of decimal digits
DigitsValue(t) == IF t = <<>> THEN 0
                  ELSE 10 * DigitsValue(SubSeq(t, 1, Len(t) - 1)) + (t[Len(t)] - 48)

RECURSIVE IntToText(_)
\* str(n) for an int n >= 0
IntToText(n) == IF n < 10 THEN <<48 + n>>
                ELSE IntToText(n \div 10) \o <<48 + (n % 10)>>

TwoDigits(n) == <<48 + (n \div 10), 48 + (n % 10)>>

\* index of the first '.' (46) in t, 0 if none
DotIndex(t) == IF \E i \in 1..Len(t) : t[i] = 46
               THEN CHOOSE i \in 1..Len(t) : t[i] = 46 /\ \A j \in 1..(i - 1) : t[j] # 46
               ELSE 0

\* float values outside the finite numbers, and an exception that escapes
FInf(neg) == [kind |-> "inf", neg |-> neg]
FNaN == [kind |-> "nan"]
Raised(exc) == [kind |-> "raise", exc |-> exc]

\* binary64 range: |x| >= 2^1024 is inf, |x| < 2^-1075 is 0 (between 2^-1075
\* and 2^-1022 the reduced precision of subnormals is not modelled)
MaxBinaryExponent == 1024
MinBinaryExponent == -1075
FRange(x) ==
    IF x.m = <<>> THEN x
    ELSE IF BBitLen(x.m) + x.e > MaxBinaryExponent THEN FInf(x.neg)
    ELSE IF BBitLen(x.m) + x.e <= MinBinaryExponent THEN FZero
    ELSE x

RECURSIVE BScale10(_, _)
\* a * 10^k
BScale10(a, k) == IF k = 0 THEN a
                  ELSE IF k >= 4 THEN BScale10(BMulSmall(a, 10000), k - 4)
                  ELSE BScale10(BMulSmall(a, 10), k - 1)

\* decimal exponents from which every nonzero numeral is inf, resp. 0
FarExponent == 400

\* the float nearest to n * 10^shift, for a natural n written with len digits
Scaled(n, shift, len) ==
    IF n = 0 THEN FZero
    ELSE IF shift >= FarExponent THEN FInf(FALSE)
    ELSE IF shift + len <= -FarExponent THEN FZero
    ELSE FRange(FDiv(FNorm(FALSE, BScale10(BFromInt(n), Max(shift, 0)), 0),
                     FNorm(FALSE, BScale10(<<1>>, Max(-shift, 0)), 0)))

\* the parsed magnitude x with its sign
Signed(x, neg) ==
    [ok |-> TRUE,
     v |-> IF x.kind = "inf" THEN FInf(neg) ELSE [x EXCEPT !.neg = neg /\ x.m # <<>>]]

LowerCp(c) == IF c >= 65 /\ c <= 90 THEN c + 32 ELSE c
\* str.lower() on ASCII letters
Lower(t) == [i \in 1..Len(t) |-> LowerCp(t[i])]

\* index of the first 'e' or 'E' in t, 0 if none
ExpIndex(t) == IF \E i \in 1..Len(t) : t[i] \in {69, 101}
               THEN CHOOSE i \in 1..Len(t) :
                        t[i] \in {69, 101} /\ \A j \in 1..(i - 1) : t[j] \notin {69, 101}
               ELSE 0

\* the exponent part after 'e': an optional sign and at least one digit
ExponentDigits(t) == IF t # <<>> /\ t[1] \in {43, 45} THEN Tail(t) ELSE t
ParseExponent(t) ==
    IF ExponentDigits(t) = <<>> \/ \E i \in 1..Len(ExponentDigits(t)) : ~IsDigit(ExponentDigits(t)[i])
    THEN [ok |-> FALSE]
    ELSE [ok |-> TRUE,
          v |-> (IF t[1] = 45 THEN -1 ELSE 1)
                * (IF Len(ExponentDigits(t)) > 6 THEN 1000000
                   ELSE DigitsValue(ExponentDigits(t)))]

\* the mantissa digits ip '.' fp with decimal exponent ex
ParseMantissa(ip, fp, ex, neg) ==
    IF ~ex.ok \/ Len(ip) + Len(fp) = 0
       \/ (\E i \in 1..Len(ip) : ~IsDigit(ip[i]))
       \/ (\E i \in 1..Len(fp) : ~IsDigit(fp[i]))
    THEN [ok |-> FALSE]
    ELSE Signed(Scaled(DigitsValue(ip \o fp), ex.v - Len(fp), Len(ip) + Len(fp)), neg)

\* the mantissa text split at its '.' at index d (0: no '.')
ParseDotted(t, d, ex, neg) ==
    ParseMantissa(IF d = 0 THEN t ELSE SubSeq(t, 1, d - 1),
                  IF d = 0 THEN <<>> ELSE SubSeq(t, d + 1, Len(t)), ex, neg)

\* the text split at its 'e' at index x (0: no exponent)
ParseAtExponent(t, x, neg) ==
    IF x = 0 THEN ParseDotted(t, DotIndex(t), [ok |-> TRUE, v |-> 0], neg)
    ELSE ParseDotted(SubSeq(t, 1, x - 1), DotIndex(SubSeq(t, 1, x - 1)),
                     ParseExponent(SubSeq(t, x + 1, Len(t))), neg)

\* float(text) for a stripped, unsigned text: [ok |-> FALSE] is ValueError.
\* Accepted: "inf", "infinity", "nan" in any case, and decimal numerals
\* digits [. digits] | . digits, each with an optional exponent e[+-]digits
\* (numerals of at most 9 mantissa digits; digit separators are not modelled).
ParseUnsigned(t, neg) ==
    IF Lower(t) \in {<<105, 110, 102>>, <<105, 110, 102, 105, 110, 105, 116, 121>>} THEN [ok |-> TRUE, v |-> FInf(neg)]
    ELSE IF Lower(t) = <<110, 97, 110>> THEN [ok |-> TRUE, v |-> FNaN]
    ELSE ParseAtExponent(t, ExpIndex(t), neg)

\* float(text): leading and trailing whitespace and one sign are allowed
ParseFloat(text) ==
    LET t == Strip(text)
    IN  IF t = <<>> THEN [ok |-> FALSE]
        ELSE ParseUnsigned(IF t[1] \in {43, 45} THEN Tail(t) ELSE t, t[1] = 45)

\* the try / except around float(value) and int(num_val): ValueError (from
\* float(value), or from int(nan)) is caught and gives the default;
\* OverflowError (from int(inf)) is not caught
ValueOr(r, default) ==
    IF ~r.ok \/ r.v.kind = "nan" THEN default
    ELSE IF r.v.kind = "inf" THEN Raised("OverflowError")
    ELSE r.v

safe_numeric(value, default) ==
    IF IsNa(value) THEN default
    ELSE IF value.kind = "str"
    THEN IF value.s = <<>> \/ Strip(value.s) = <<>> THEN default
         ELSE ValueOr(ParseFloat(value.s), default)
    ELSE value

-----------------------------------------------------------------------------
(* Quantity split engine.                                                  *)

calculate_case_labels_needed(quantity, units_per_case) ==
    IF FLeZero(quantity) \/ FLeZero(units_per_case) THEN 0
    ELSE FCeil(FDiv(quantity, units_per_case))

RECURSIVE SplitLoop(_, _, _)
\* the while loop of calculate_individual_case_quantities
SplitLoop(remaining, units_per_case, quantities) ==
    IF FGtZero(remaining)
    THEN IF FGe(remaining, units_per_case)
         THEN SplitLoop(FSub(remaining, units_per_case), units_per_case,
                        Append(quantities, units_per_case))
         ELSE SplitLoop(FZero, units_per_case, Append(quantities, remaining))
    ELSE quantities

calculate_individual_case_quantities(quantity, units_per_case) ==
    IF FLeZero(quantity) \/ FLeZero(units_per_case) THEN <<>>
    ELSE SplitLoop(quantity, units_per_case, <<>>)

\* the "Case Labels Needed" column computed by merge_data_sources
CaseLabelsNeededColumn(Quantity_Num, Units_Per_Case_Num) ==
    IF FGtZero(Units_Per_Case_Num)
    THEN calculate_case_labels_needed(Quantity_Num, Units_Per_Case_Num)
    ELSE 0

-----------------------------------------------------------------------------
(* Dates and the symbol rotation selector.                                 *)

\* a calendar date is [y, m, d]
IsLeap(y) == y % 4 = 0 /\ (y % 100 # 0 \/ y % 400 = 0)

DaysInMonth(y, m) == IF m = 2 THEN (IF IsLeap(y) THEN 29 ELSE 28)
                     ELSE IF m \in {4, 6, 9, 11} THEN 30 ELSE 31

RECURSIVE DaysBeforeMonth(_, _)
DaysBeforeMonth(y, m) == IF m = 1 THEN 0
                         ELSE DaysBeforeMonth(y, m - 1) + DaysInMonth(y, m - 1)

DaysBeforeYear(year) ==
    LET y == year - 1 IN y * 365 + (y \div 4) - (y \div 100) + (y \div 400)

\* proleptic Gregorian ordinal, 0001-01-01 is day 1
Ymd2Ord(y, m, d) == DaysBeforeYear(y) + DaysBeforeMonth(y, m) + d

IsoWeek1Monday(year) ==
    LET firstday == Ymd2Ord(year, 1, 1)
        firstweekday == (firstday + 6) % 7
        week1monday == firstday - firstweekday
    IN  IF firstweekday > 3 THEN week1monday + 7 ELSE week1monday

\* date.isocalendar(): <<ISO year, ISO week, ISO weekday>>
isocalendar(date) ==
    LET today == Ymd2Ord(date.y, date.m, date.d)
        off == today - IsoWeek1Monday(date.y)
        week == off \div 7
        day == off % 7
    IN  IF week < 0
        THEN LET off2 == today - IsoWeek1Monday(date.y - 1)
             IN  <<date.y - 1, (off2 \div 7) + 1, (off2 % 7) + 1>>
        ELSE IF week >= 52 /\ today >= IsoWeek1Monday(date.y + 1)
        THEN <<date.y + 1, 1, day + 1>>
        ELSE <<date.y, week + 1, day + 1>>

\* pd.to_datetime(text) for texts of the shape YYYY-MM-DD; every other text
\* is unparsable (ValueError) and the empty text gives NaT
to_datetime(text) ==
    IF text = <<>> THEN [ok |-> TRUE, nat |-> TRUE]
    ELSE IF /\ Len(text) = 10
            /\ text[5] = 45 /\ text[8] = 45
            /\ \A i \in {1, 2, 3, 4, 6, 7, 9, 10} : IsDigit(text[i])
    THEN LET y == DigitsValue(SubSeq(text, 1, 4))
             m == DigitsValue(SubSeq(text, 6, 7))
             d == DigitsValue(SubSeq(text, 9, 10))
         IN  IF y >= 1 /\ m \in 1..12 /\ d >= 1 /\ d <= DaysInMonth(y, m)
             THEN [ok |-> TRUE, nat |-> FALSE, date |-> [y |-> y, m |-> m, d |-> d]]
             ELSE [ok |-> FALSE]
    ELSE [ok |-> FALSE]

\* variant of get_week_number: the ISO week is not shifted before the
\* reduction modulo 18
get_week_number_Unshifted(date_value, now) ==
    LET parsed == IF ~IsNa(date_value) THEN to_datetime(date_value.s)
                  ELSE [ok |-> TRUE, nat |-> FALSE, date |-> now]
    IN  IF ~parsed.ok \/ parsed.nat THEN 1
        ELSE LET iso_week == isocalendar(parsed.date)[2]
             IN  (iso_week % 18) + 1

\* variant of get_week_number: a value that cannot be parsed is replaced
\* by the current date
get_week_number_NowOnError(date_value, now) ==
    LET parsed == IF ~IsNa(date_value) THEN to_datetime(date_value.s)
                  ELSE [ok |-> TRUE, nat |-> FALSE, date |-> now]
        date_obj == IF ~parsed.ok \/ parsed.nat THEN now ELSE parsed.date
    IN  ((isocalendar(date_obj)[2] - 1) % 18) + 1

\* now is datetime.now(TIMEZONE).date(), today's date in America/Los_Angeles
get_week_number(date_value, now) ==
    LET parsed == IF ~IsNa(date_value) THEN to_datetime(date_value.s)
                  ELSE [ok |-> TRUE, nat |-> FALSE, date |-> now]
    IN  IF ~parsed.ok \/ parsed.nat THEN 1      \* ValueError: default to week 1
        ELSE LET iso_week == isocalendar(parsed.date)[2]
             IN  ((iso_week - 1) % 18) + 1

-----------------------------------------------------------------------------
(* Label document composer.                                                *)

\* str(value): a missing value prints as "nan"
StrOf(v) == IF IsNa(v) THEN <<110, 97, 110>> ELSE v.s

\* pd.notna(value) and value, for a string-valued cell
Present(v) == ~IsNa(v) /\ v.s # <<>>

sanitize_qr_data(package_label) ==
    IF IsNa(package_label) THEN <<>> ELSE Strip(package_label.s)

\* f"{x:.1f}" for x > 0: x rounded to one decimal, half to even on the
\* exact binary value
FormatOneDecimal(x) ==
    LET n == BMulSmall(x.m, 10)
        s == -x.e
        ip == IF x.e >= 0 THEN BToInt(BShl(n, x.e)) ELSE BToInt(BShr(n, s))
        guard == IF x.e >= 0 THEN 0 ELSE BBit(n, s - 1)
        low == x.e < 0 /\ ~BLowZero(n, s - 1)
        t == IF guard = 1 /\ (low \/ ip % 2 = 1) THEN ip + 1 ELSE ip
    IN  IntToText(t \div 10) \o <<46>> \o IntToText(t % 10)

\* variant of QtyNumDisplay: always one decimal
QtyNumDisplay_AlwaysDecimal(qty_num) ==
    <<67, 97, 115, 101, 32, 81, 116, 121, 58, 32>> \o FormatOneDecimal(qty_num)

\* the quantity line text: qty is None or a number
\* f"Case Qty: {int(qty_num)}" when qty_num is integral, else
\* f"Case Qty: {qty_num:.1f}"
QtyNumDisplay(qty_num) ==
    IF FIsIntegral(qty_num)
    THEN <<67, 97, 115, 101, 32, 81, 116, 121, 58, 32>> \o (IF qty_num.neg THEN <<45>> ELSE <<>>)
            \o IntToText(IF qty_num.neg THEN -FTrunc(qty_num) ELSE FTrunc(qty_num))
    ELSE <<67, 97, 115, 101, 32, 81, 116, 121, 58, 32>> \o FormatOneDecimal(qty_num)

\* variant of QtyDisplay: a missing case size is shown as 0
QtyDisplay_ZeroForMissing(qty) ==
    IF IsNa(qty) THEN <<67, 97, 115, 101, 32, 81, 116, 121, 58, 32, 48>>
    ELSE QtyNumDisplay(safe_numeric(qty, FZero))

QtyDisplay(qty) ==
    IF IsNa(qty) THEN <<67, 97, 115, 101, 32, 81, 116, 121, 58, 32, 78, 47, 65>>
    ELSE QtyNumDisplay(safe_numeric(qty, FZero))

\* date_obj.strftime("%m/%d/%Y")
FourDigits(n) == <<48 + (n \div 1000), 48 + ((n \div 100) % 10),
                   48 + ((n \div 10) % 10), 48 + (n % 10)>>
Strftime(date) ==
    TwoDigits(date.m) \o <<47>> \o TwoDigits(date.d) \o <<47>> \o FourDigits(date.y)

RECURSIVE Words(_)
\* str.split(): the maximal runs of non-whitespace characters
Words(t) ==
    LET u == LStrip(t) IN
    IF u = <<>> THEN <<>>
    ELSE LET n == IF \E i \in 1..Len(u) : IsSpace(u[i])
                  THEN (CHOOSE i \in 1..Len(u) :
                           IsSpace(u[i]) /\ \A j \in 1..(i - 1) : ~IsSpace(u[j])) - 1
                  ELSE Len(u)
         IN  <<SubSeq(u, 1, n)>> \o Words(SubSeq(u, n + 1, Len(u)))

\* label geometry, in dots
LABEL_WIDTH == 4
DPI == 203
WEEK_SYMBOL_SIZE == 40
width_dots == LABEL_WIDTH * DPI
font_uid == 46
font_large == 32
font_large_plus == 28
font_medium == 24
font_small_plus == 22
left_margin == 20
right_margin == 20
brand_bar_y == 8
brand_bar_height == 50
product_y == 70
uid_y == 180
date_y == 220
bottom_y == 360
qr_y == 120
qr_magnification == 5
qr_box_size == qr_magnification * 30
qr_x == width_dots - qr_box_size - 15
text_width == width_dots - left_margin - right_margin
\* int(text_width / (font_large * 0.45))
max_chars == (text_width * 100) \div (font_large * 45)
\* int(font_large * 1.2)
line_pitch == (font_large * 12) \div 10

RECURSIVE WrapWords(_, _, _)
\* the for loop of the two-line word wrap: returns <<product_lines, current_line>>
WrapWords(words, current_line, product_lines) ==
    IF words = <<>> THEN <<product_lines, current_line>>
    ELSE LET word == words[1]
             test_line == IF current_line # <<>> THEN current_line \o <<32>> \o word
                          ELSE word
         IN  IF Len(test_line) <= max_chars
             THEN WrapWords(Tail(words), test_line, product_lines)
             ELSE WrapWords(Tail(words), word,
                            IF current_line # <<>> THEN Append(product_lines, current_line)
                            ELSE product_lines)

ProductLines(product_display) ==
    IF Len(product_display) > max_chars
    THEN LET w == WrapWords(Words(product_display), <<>>, <<>>)
             lines == IF w[2] # <<>> THEN Append(w[1], w[2]) ELSE w[1]
         IN  IF Len(lines) > 2
             THEN <<lines[1],
                    IF Len(lines[2]) > max_chars - 3
                    THEN SubSeq(lines[2], 1, max_chars - 3) \o <<46, 46, 46>>
                    ELSE lines[2]>>
             ELSE lines
    ELSE <<product_display>>

\* ZPL lines.  blk names the block of the layout a line belongs to.
ZplLine(blk, cmd) == [blk |-> blk, cmd |-> cmd]
ZplFont(blk, h) == [blk |-> blk, cmd |-> "^CF0", h |-> h]
ZplBox(blk, x, y, w, h, t) == [blk |-> blk, cmd |-> "^FO^GB", x |-> x, y |-> y, w |-> w, h |-> h, t |-> t]
ZplText(blk, x, y, rev, text) ==
    [blk |-> blk, cmd |-> "^FO^FD", x |-> x, y |-> y, rev |-> rev, text |-> text]
ZplQr(blk, x, y, mag, data) ==
    [blk |-> blk, cmd |-> "^FO^BQN", x |-> x, y |-> y, mag |-> mag, data |-> data]
ZplGraphic(blk, x, y, icon) ==
    [blk |-> blk, cmd |-> "^FO^GFA", x |-> x, y |-> y, icon |-> icon]

\* variant of generate_week_symbol_zpl: the week is reduced modulo 18
\* without the shift, so that week 18 looks up an icon 0 that does not exist
generate_week_symbol_zpl_Unshifted(week, x, y) ==
    LET w == week % 18
    IN  IF w \in 1..18 THEN <<ZplGraphic("symbol", x, y, w)>> ELSE <<>>

\* WEEK_ICONS has an icon for each of 1..18
generate_week_symbol_zpl(week, x, y) ==
    LET w == ((week - 1) % 18) + 1
    IN  IF w \in 1..18 THEN <<ZplGraphic("symbol", x, y, w)>> ELSE <<>>

\* the quantity line, right-aligned at the bottom
QtyBlock(qty_display) ==
    LET qty_x == width_dots - right_margin - Len(qty_display) * (font_large_plus \div 2)
    IN  <<ZplFont("qty", font_large_plus),
          ZplText("qty", qty_x, bottom_y, FALSE, qty_display)>>

\* variant of BrandDisplay: the cut leaves no room for the ellipsis
BrandDisplay_NoRoomForEllipsis(brand_text) ==
    IF Len(brand_text) > max_chars
    THEN SubSeq(brand_text, 1, max_chars) \o <<46, 46, 46>>
    ELSE brand_text

\* brand_display: brand_text cut to max_chars - 3 characters and "..." when
\* it is longer than max_chars
BrandDisplay(brand_text) ==
    IF Len(brand_text) > max_chars
    THEN SubSeq(brand_text, 1, max_chars - 3) \o <<46, 46, 46>>
    ELSE brand_text

\* variant of CreatedDateDisplay: a text that cannot be parsed is dropped
CreatedDateDisplay_NoFallback(created_date) ==
    IF Present(created_date)
    THEN LET parsed == to_datetime(created_date.s)
         IN  IF parsed.ok THEN Strftime(parsed.date) ELSE <<>>
    ELSE <<>>

\* created_date_display: MM/DD/YYYY, the text itself when it cannot be
\* parsed, empty when the value is missing or empty
CreatedDateDisplay(created_date) ==
    IF Present(created_date)
    THEN LET parsed == to_datetime(created_date.s)
         IN  IF parsed.ok THEN Strftime(parsed.date) ELSE created_date.s
    ELSE <<>>

generate_label_zpl(product_name, brand, product_clean, batch_no, qty, package_label, category, created_date, today) ==
    LET brand_display == BrandDisplay(IF Present(brand) THEN brand.s ELSE <<>>)
        product_display == IF Present(product_clean) THEN product_clean.s
                           ELSE StrOf(product_name)
        product_lines == ProductLines(product_display)
        qr_data == sanitize_qr_data(package_label)
        created_date_display == CreatedDateDisplay(created_date)
        week == get_week_number(created_date, today)
        brand_text_y == brand_bar_y + ((brand_bar_height - font_large) \div 2)
        category_text == IF Present(category) THEN category.s ELSE <<>>
        category_x == width_dots - right_margin - Len(category_text) * (font_medium \div 2)
        category_text_y == brand_bar_y + ((brand_bar_height - font_medium) \div 2)
        available_width == qr_x - left_margin - 20
        uid_c == left_margin + ((available_width - Len(qr_data) * (font_uid \div 2)) \div 2)
        uid_x == IF uid_c < left_margin THEN left_margin ELSE uid_c
        date_text == <<67, 114, 101, 97, 116, 101, 100, 58, 32>> \o created_date_display
        date_c == left_margin
                    + ((available_width - Len(date_text) * (font_small_plus \div 2)) \div 2)
        date_x == IF date_c < left_margin THEN left_margin ELSE date_c
        symbol_x == (width_dots \div 2) - (WEEK_SYMBOL_SIZE \div 2)
        symbol_y == bottom_y - 4
    IN  <<ZplLine("start", "^XA"),
          ZplBox("bar", 0, brand_bar_y, width_dots, brand_bar_height, brand_bar_height)>>
        \o (IF brand_display # <<>>
            THEN <<ZplLine("brand", "^FR"), ZplFont("brand", font_large),
                   ZplText("brand", left_margin, brand_text_y, TRUE, brand_display)>>
            ELSE <<>>)
        \o (IF Present(category)
            THEN <<ZplFont("category", font_medium),
                   ZplText("category", category_x, category_text_y, TRUE, category_text)>>
            ELSE <<>>)
        \o <<ZplFont("product", font_large)>>
        \o [i \in 1..Len(product_lines) |->
              ZplText("product", left_margin, product_y + (i - 1) * line_pitch, FALSE,
                      product_lines[i])]
        \o (IF qr_data # <<>>
            THEN <<ZplFont("uid", font_uid), ZplText("uid", uid_x, uid_y, FALSE, qr_data)>>
            ELSE <<>>)
        \o (IF created_date_display # <<>>
            THEN <<ZplFont("created", font_small_plus),
                   ZplText("created", date_x, date_y, FALSE, date_text)>>
            ELSE <<>>)
        \o (IF qr_data # <<>>
            THEN <<ZplQr("qr", qr_x, qr_y, qr_magnification, qr_data)>>
            ELSE <<>>)
        \o (IF Present(batch_no)
            THEN <<ZplFont("batch", font_large_plus),
                   ZplText("batch", left_margin, bottom_y, FALSE, <<66, 97, 116, 99, 104, 58, 32>> \o batch_no.s)>>
            ELSE <<>>)
        \o generate_week_symbol_zpl(week, symbol_x, symbol_y)
        \o QtyBlock(QtyDisplay(qty))
        \o <<ZplLine("end", "^XZ")>>

-----------------------------------------------------------------------------
(* Record normalizer and data merger.                                      *)

\* index of the first occurrence of pat in t, 0 if there is none
FindSub(t, pat) ==
    LET hits == {i \in 1..(Len(t) - Len(pat) + 1) : SubSeq(t, i, i + Len(pat) - 1) = pat}
    IN  IF hits = {} THEN 0 ELSE CHOOSE i \in hits : \A j \in hits : i <= j

extract_brand_BareHyphenFirst(product_name) ==
    IF IsNa(product_name) THEN <<<<>>, StrOf(product_name)>>
    ELSE IF product_name.s = <<>> THEN <<<<>>, <<>>>>
    ELSE LET product_str == Strip(product_name.s)
             bare == FindSub(product_str, <<45>>)
         IN  IF bare > 0
             THEN <<Strip(SubSeq(product_str, 1, bare - 1)),
                    Strip(SubSeq(product_str, bare + 1, Len(product_str)))>>
             ELSE <<<<>>, product_str>>

\* returns <<brand, remainder>> as texts
extract_brand(product_name) ==
    IF IsNa(product_name) THEN <<<<>>, StrOf(product_name)>>
    ELSE IF product_name.s = <<>> THEN <<<<>>, <<>>>>
    ELSE LET product_str == Strip(product_name.s)
             spaced == FindSub(product_str, <<32, 45, 32>>)
             bare == FindSub(product_str, <<45>>)
         IN  IF spaced > 0
             THEN <<Strip(SubSeq(product_str, 1, spaced - 1)),
                    Strip(SubSeq(product_str, spaced + 3, Len(product_str)))>>
             ELSE IF bare > 0
             THEN <<Strip(SubSeq(product_str, 1, bare - 1)),
                    Strip(SubSeq(product_str, bare + 1, Len(product_str)))>>
             ELSE <<<<>>, product_str>>

\* pd.to_datetime(value, errors="coerce").date(): None when missing or unparsable
CreatedDate(value) ==
    IF IsNa(value) THEN None
    ELSE LET parsed == to_datetime(value.s)
         IN  IF parsed.ok /\ ~parsed.nat THEN [kind |-> "date", date |-> parsed.date]
             ELSE None

\* one row of the merged frame: a package row joined with the columns of a
\* product row (all missing when no product row has the package's product name)
NoProduct == [Name |-> None, Units_Per_Case |-> None, Category |-> None, Vendor |-> None]

MergedRow(package, product) ==
    LET bp == extract_brand(package.Distru_Product)
        quantity_num == safe_numeric(package.Quantity, FZero)
        units_num == safe_numeric(product.Units_Per_Case, FZero)
    IN  [Product_Name |-> package.Distru_Product,
         Brand |-> Str(bp[1]),
         Product_Clean |-> Str(bp[2]),
         Package_Label |-> package.Package_Label,
         Quantity |-> package.Quantity,
         Quantity_Num |-> quantity_num,
         Units_Per_Case |-> product.Units_Per_Case,
         Units_Per_Case_Num |-> units_num,
         Case_Labels_Needed |-> CaseLabelsNeededColumn(quantity_num, units_num),
         Batch_No |-> package.Distru_Batch_Number,
         Category |-> IF ~IsNa(package.Category) THEN package.Category
                      ELSE product.Category,
         Created_Date |-> CreatedDate(package.Created_At_UTC),
         Created_At_Full |-> package.Created_At_UTC,
         Status |-> package.Status,
         Location |-> package.Location,
         Vendor |-> product.Vendor]

\* the product rows whose Name equals the key, in product order
Matches(products, key) ==
    LET idx == {i \in 1..Len(products) : products[i].Name = key}
        RECURSIVE Pick(_)
        Pick(i) == IF i > Len(products) THEN <<>>
                   ELSE (IF i \in idx THEN <<products[i]>> ELSE <<>>) \o Pick(i + 1)
    IN  Pick(1)

RECURSIVE LeftMerge(_, _)
\* packages_df.merge(products_subset, left_on="Distru Product", right_on="Name",
\* how="left"): the <<package row, product row>> pairs, in package order, one
\* pair for each product row with the package's product name
LeftMerge(packages, products) ==
    IF packages = <<>> THEN <<>>
    ELSE LET package == packages[1]
             ms == Matches(products, package.Distru_Product)
         IN  (IF ms = <<>> THEN <<<<package, NoProduct>>>>
              ELSE [i \in 1..Len(ms) |-> <<package, ms[i]>>])
             \o LeftMerge(Tail(packages), products)

\* a table: the names of its columns and its rows; a cell of a column the
\* table does not have is never read
Frame(columns, rows) == [kind |-> "frame", columns |-> columns, rows |-> rows]

\* the columns merge_data_sources reads from each table ("Distru Product",
\* "Package Label", "Quantity", "Distru Batch Number", "Category",
\* "Created in Distru At (UTC)", "Status", "Location" and "Name",
\* "Units Per Case", "Category", "Vendor")
PackageColumns ==
    {"Distru_Product", "Package_Label", "Quantity", "Distru_Batch_Number", "Category",
     "Created_At_UTC", "Status", "Location"}
ProductColumns == {"Name", "Units_Per_Case", "Category", "Vendor"}

\* the columns of result_df
ResultColumns ==
    {"Product_Name", "Brand", "Product_Clean", "Package_Label", "Quantity", "Quantity_Num",
     "Units_Per_Case", "Units_Per_Case_Num", "Case_Labels_Needed", "Batch_No", "Category",
     "Created_Date", "Created_At_Full", "Status", "Location", "Vendor"}

\* .apply(safe_numeric) raises on a cell of the joined row
NumericRaises(quantity_num, units_num) ==
    quantity_num.kind = "raise" \/ units_num.kind = "raise"

PairRaises(pair) ==
    NumericRaises(safe_numeric(pair[1].Quantity, FZero),
                  safe_numeric(pair[2].Units_Per_Case, FZero))

MergedFrame(pairs) ==
    IF \E i \in 1..Len(pairs) : PairRaises(pairs[i]) THEN None
    ELSE Frame(ResultColumns, [i \in 1..Len(pairs) |-> MergedRow(pairs[i][1], pairs[i][2])])

\* the merged frame, or None when an exception is caught: a KeyError for a
\* column one of the tables does not have, or what safe_numeric raises
merge_data_sources(packages_df, products_df) ==
    IF ~(ProductColumns \subseteq products_df.columns) THEN None
    ELSE IF ~(PackageColumns \subseteq packages_df.columns) THEN None
    ELSE MergedFrame(LeftMerge(packages_df.rows, products_df.rows))

-----------------------------------------------------------------------------
(* Batch generator.                                                        *)

RECURSIVE TextLess(_, _)
\* a < b for Python strings: lexicographic by code point
TextLess(a, b) ==
    IF b = <<>> THEN FALSE
    ELSE IF a = <<>> THEN TRUE
    ELSE IF a[1] # b[1] THEN a[1] < b[1]
    ELSE TextLess(Tail(a), Tail(b))

\* the sort key order of sort_values(["Package Label"]): missing labels last
LabelLess(x, y) ==
    IF IsNa(x) THEN FALSE
    ELSE IF IsNa(y) THEN TRUE
    ELSE TextLess(x.s, y.s)

RECURSIVE InsertRow(_, _)
\* insert row after every row of the sorted frame that is not greater
InsertRow(sorted, row) ==
    IF sorted = <<>> THEN <<row>>
    ELSE IF LabelLess(row.Package_Label, sorted[Len(sorted)].Package_Label)
    THEN Append(InsertRow(SubSeq(sorted, 1, Len(sorted) - 1), row), sorted[Len(sorted)])
    ELSE Append(sorted, row)

\* variant of SortByPackageLabel: the frame is left in input order
SortByPackageLabel_InputOrder(df) == df

RECURSIVE SortByPackageLabel(_)
\* df.sort_values(["Package Label"], ascending=[True]); rows with equal
\* labels keep their input order (the frames here are far below the size at
\* which numpy's quicksort stops being an insertion sort)
SortByPackageLabel(df) ==
    IF df = <<>> THEN <<>>
    ELSE InsertRow(SortByPackageLabel(SubSeq(df, 1, Len(df) - 1)), df[Len(df)])

\* variant of RowLabelZpl: the label shows the package quantity
RowLabelZpl_PackageQuantity(row, qty, today) ==
    generate_label_zpl(row.Product_Name, row.Brand, row.Product_Clean, row.Batch_No,
                       row.Quantity_Num, row.Package_Label, row.Category,
                       row.Created_At_Full, today)

RowLabelZpl(row, qty, today) ==
    generate_label_zpl(row.Product_Name, row.Brand, row.Product_Clean, row.Batch_No,
                       qty, row.Package_Label, row.Category, row.Created_At_Full, today)

\* variant of LabelsForQuantity in which case mode prints one label for a
\* row without case size
LabelsForQuantity_CaseWithoutSize(row, label_mode, today, quantity, units_per_case) ==
    IF FLeZero(quantity) THEN <<>>
    ELSE IF label_mode = "case" /\ FGtZero(units_per_case)
    THEN [c \in 1..calculate_case_labels_needed(quantity, units_per_case) |->
            RowLabelZpl(row, units_per_case, today)]
    ELSE <<RowLabelZpl(row, IF FGtZero(units_per_case) THEN units_per_case ELSE None,
                       today)>>

\* the labels of a row whose numeric columns are quantity and units_per_case
LabelsForQuantity(row, label_mode, today, quantity, units_per_case) ==
    IF FLeZero(quantity) THEN <<>>
    ELSE IF label_mode = "package"
    THEN <<RowLabelZpl(row, IF FGtZero(units_per_case) THEN units_per_case ELSE None,
                       today)>>
    ELSE IF label_mode = "case" /\ FGtZero(units_per_case)
    THEN [c \in 1..calculate_case_labels_needed(quantity, units_per_case) |->
            RowLabelZpl(row, units_per_case, today)]
    ELSE <<>>

\* variant of LabelsForQuantity without the quantity test
LabelsForQuantity_NoQuantityTest(row, label_mode, today, quantity, units_per_case) ==
    IF label_mode = "package"
    THEN <<RowLabelZpl(row, IF FGtZero(units_per_case) THEN units_per_case ELSE None,
                       today)>>
    ELSE IF label_mode = "case" /\ FGtZero(units_per_case)
    THEN [c \in 1..calculate_case_labels_needed(quantity, units_per_case) |->
            RowLabelZpl(row, units_per_case, today)]
    ELSE <<>>

\* variant of generate_labels_for_row without the quantity test
generate_labels_for_row_NoQuantityTest(row, label_mode, today) ==
    LabelsForQuantity_NoQuantityTest(row, label_mode, today,
                                     safe_numeric(row.Quantity_Num, FZero),
                                     safe_numeric(row.Units_Per_Case_Num, FZero))

generate_labels_for_row(row, label_mode, today) ==
    LabelsForQuantity(row, label_mode, today,
                      safe_numeric(row.Quantity_Num, FZero),
                      safe_numeric(row.Units_Per_Case_Num, FZero))

\* the labels of a row with a positive override
OverrideLabels(row, today, override_count, units_per_case) ==
    [c \in 1..override_count |->
        RowLabelZpl(row, IF FGtZero(units_per_case) THEN units_per_case ELSE None, today)]

\* variant of RowEmission: "if override:" in place of the two tests, so that
\* an override of 0 falls through to the label mode
RowEmission_TruthyOverride(row, label_mode, today) ==
    IF ~IsNa(row.Label_Override) /\ FTrunc(row.Label_Override) # 0
    THEN OverrideLabels(row, today, FTrunc(row.Label_Override),
                        safe_numeric(row.Units_Per_Case_Num, FZero))
    ELSE generate_labels_for_row(row, label_mode, today)

\* the body of the loop of generate_all_labels: the labels appended for one row
RowEmission(row, label_mode, today) ==
    IF ~IsNa(row.Label_Override) /\ FTrunc(row.Label_Override) > 0
    THEN OverrideLabels(row, today, FTrunc(row.Label_Override),
                        safe_numeric(row.Units_Per_Case_Num, FZero))
    ELSE IF ~IsNa(row.Label_Override) /\ FTrunc(row.Label_Override) = 0
    THEN <<>>
    ELSE generate_labels_for_row(row, label_mode, today)

RECURSIVE Flatten(_)
Flatten(lists) == IF lists = <<>> THEN <<>> ELSE lists[1] \o Flatten(Tail(lists))

\* what each row of the sorted frame appends to all_labels, in loop order
RowEmissions(df_sorted, label_mode, today) ==
    [i \in 1..Len(df_sorted) |-> RowEmission(df_sorted[i], label_mode, today)]

Emissions(df, label_mode, today) ==
    RowEmissions(SortByPackageLabel(df), label_mode, today)

generate_all_labels(df, label_mode, today) == Flatten(Emissions(df, label_mode, today))

-----------------------------------------------------------------------------
(* Totals and the output file name.                                        *)

\* str.replace(" ", "_")
ReplaceSpaces(t) == [i \in 1..Len(t) |-> IF t[i] = 32 THEN 95 ELSE t[i]]

\* t[:n]
Take(t, n) == SubSeq(t, 1, Min(n, Len(t)))

RECURSIVE JoinTexts(_, _)
\* sep.join(texts)
JoinTexts(texts, sep) ==
    IF texts = <<>> THEN <<>>
    ELSE IF Len(texts) = 1 THEN texts[1]
    ELSE texts[1] \o sep \o JoinTexts(Tail(texts), sep)

RECURSIVE UniqueBrands(_, _)
\* data["Brand"].dropna().unique(): the distinct brands in order of first appearance
UniqueBrands(data, seen) ==
    IF data = <<>> THEN seen
    ELSE UniqueBrands(Tail(data),
                      IF IsNa(data[1].Brand) \/ (\E k \in 1..Len(seen) : seen[k] = data[1].Brand.s)
                      THEN seen ELSE Append(seen, data[1].Brand.s))

SingleBrandLength == 20
JoinedBrandLength == 10
BrandPartLength == 30

BrandPart(brands) ==
    IF Len(brands) = 1 THEN Take(ReplaceSpaces(brands[1]), SingleBrandLength)
    ELSE IF Len(brands) <= 3
    THEN Take(JoinTexts([k \in 1..Len(brands) |->
                            Take(ReplaceSpaces(brands[k]), JoinedBrandLength)], <<95>>),
              BrandPartLength)
    ELSE <<77, 117, 108, 116, 105, 112, 108, 101, 95>> \o IntToText(Len(brands))
         \o <<95, 98, 114, 97, 110, 100, 115>>

\* "per_package" / "per_case"
ModePart(label_mode) ==
    IF label_mode = "package"
    THEN <<112, 101, 114, 95, 112, 97, 99, 107, 97, 103, 101>>
    ELSE <<112, 101, 114, 95, 99, 97, 115, 101>>

\* strftime("%Y%m%d_%H%M%S") of a clock reading
FileTimestamp(clock) ==
    FourDigits(clock.y) \o TwoDigits(clock.m) \o TwoDigits(clock.d) \o <<95>>
    \o TwoDigits(clock.H) \o TwoDigits(clock.M) \o TwoDigits(clock.S)

\* "dc_labels_{brand_part}_{mode_part}_{timestamp}.zpl"; clock is pd.Timestamp.now()
generate_filename(data, label_mode, clock) ==
    <<100, 99, 95, 108, 97, 98, 101, 108, 115, 95>> \o BrandPart(UniqueBrands(data, <<>>))
    \o <<95>> \o ModePart(label_mode) \o <<95>> \o FileTimestamp(clock)
    \o <<46, 122, 112, 108>>

RECURSIVE override_labels(_)
\* the sum of int(override) over the rows that have an override
override_labels(filtered_df) ==
    IF filtered_df = <<>> THEN 0
    ELSE (IF IsNa(filtered_df[1].Label_Override) THEN 0
          ELSE FTrunc(filtered_df[1].Label_Override))
         + override_labels(Tail(filtered_df))

RECURSIVE mode_labels(_, _)
\* the rows without override in package mode, the sum of their
\* "Case Labels Needed" in case mode
mode_labels(filtered_df, label_mode_key) ==
    IF filtered_df = <<>> THEN 0
    ELSE (IF ~IsNa(filtered_df[1].Label_Override) THEN 0
          ELSE IF label_mode_key = "package" THEN 1
          ELSE filtered_df[1].Case_Labels_Needed)
         + mode_labels(Tail(filtered_df), label_mode_key)

total_labels(filtered_df, label_mode_key) ==
    override_labels(filtered_df) + mode_labels(filtered_df, label_mode_key)

-----------------------------------------------------------------------------
(* The filters of the Generate Labels tab.                                 *)

\* column.dropna().unique(): the values of a column, missing cells left out
Available(rows, col) == {rows[i][col] : i \in 1..Len(rows)} \ {None}

RECURSIVE KeepRows(_, _, _)
\* rows[rows[col].isin(allowed)]
KeepRows(rows, col, allowed) ==
    IF rows = <<>> THEN <<>>
    ELSE (IF rows[1][col] \in allowed THEN <<rows[1]>> ELSE <<>>)
         \o KeepRows(Tail(rows), col, allowed)

\* frame[frame[col].isin(selected)] if selected else frame
FilterIf(rows, col, selected) == IF selected # {} THEN KeepRows(rows, col, selected) ELSE rows

\* date.toordinal() of a "Created Date" cell
OrdinalOf(cell) == Ymd2Ord(cell.date.y, cell.date.m, cell.date.d)

\* today - timedelta(days=today.weekday()), as an ordinal
WeekStart(today) ==
    Ymd2Ord(today.y, today.m, today.d) - ((Ymd2Ord(today.y, today.m, today.d) + 6) % 7)

\* selected_dates of the quick selection
QuickDates(available_dates, selection, today) ==
    IF selection = "today"
    THEN {d \in available_dates : OrdinalOf(d) = Ymd2Ord(today.y, today.m, today.d)}
    ELSE IF selection = "yesterday"
    THEN {d \in available_dates : OrdinalOf(d) = Ymd2Ord(today.y, today.m, today.d) - 1}
    ELSE IF selection = "this_week"
    THEN {d \in available_dates : OrdinalOf(d) >= WeekStart(today)}
    ELSE available_dates

\* what a multiselect stands for: its value, every option when it is empty
Selected(available, chosen) == IF chosen = {} THEN available ELSE chosen

\* the four selections of one run: dates, then statuses among those of the
\* date-filtered rows, brands among those of the status-filtered rows,
\* vendors among those of the brand-filtered rows
Selections(selected_dates, selected_statuses, selected_brands, selected_vendors) ==
    [dates |-> selected_dates, statuses |-> selected_statuses, brands |-> selected_brands,
     vendors |-> selected_vendors]

\* filtered_df: the four filters applied to processed_df
ApplyFilters(processed_df, sel) ==
    FilterIf(FilterIf(FilterIf(FilterIf(processed_df, "Created_Date", sel.dates),
                               "Brand", sel.brands),
                      "Vendor", sel.vendors),
             "Status", sel.statuses)

\* the rows the status, brand and vendor widgets take their options from
DateFiltered(processed_df, selected_dates) ==
    FilterIf(processed_df, "Created_Date", selected_dates)
StatusFiltered(processed_df, selected_dates, selected_statuses) ==
    FilterIf(DateFiltered(processed_df, selected_dates), "Status", selected_statuses)
BrandFiltered(processed_df, selected_dates, selected_statuses, selected_brands) ==
    FilterIf(StatusFiltered(processed_df, selected_dates, selected_statuses), "Brand",
             selected_brands)

-----------------------------------------------------------------------------

(* State.                                                                  *)

VARIABLES
    split_row,          \* a record's Quantity / Units Per Case cells and their safe_numeric values
    split_needed,       \* result of calculate_case_labels_needed and of the merge column
    split_quantities,   \* result of calculate_individual_case_quantities
    date_value,         \* the argument of get_week_number
    now,                \* today's date in America/Los_Angeles
    week_num,           \* result of get_week_number
    df,                 \* the merged frame with its "Label Override" column
    label_mode,         \* "package" or "case"
    all_labels,         \* result of generate_all_labels
    value,              \* the arguments of safe_numeric
    default,
    num_val,            \* result of safe_numeric
    product_name,       \* the argument of extract_brand
    brand_parts,        \* result of extract_brand
    packages_df,        \* the two tables loaded by Process Data
    products_df,
    merge_result,       \* result of merge_data_sources
    processed_data,     \* st.session_state.processed_data
    packages_data,      \* st.session_state.packages_data
    products_data,      \* st.session_state.products_data
    uploads,            \* number of times Process Data was pressed
    zpl_content,        \* st.session_state["zpl_content"]
    zpl_filename,       \* st.session_state["zpl_filename"]
    label_count,        \* st.session_state["label_count"]
    labels,             \* what generate_all_labels returned to the Generate button
    message,            \* the st.error / st.success shown by the Generate button
    clicks,             \* number of times the Generate button was pressed
    label_row,          \* a merged row handed to generate_label_zpl
    zpl,                \* result of generate_label_zpl
    date_selection,     \* st.session_state["date_selection"]
    widgets,            \* the values of the status, brand and vendor multiselects
    selections,         \* selected_dates, selected_statuses, selected_brands, selected_vendors
    filtered_df         \* the rows left by the filters

splitVars == <<split_row, split_needed, split_quantities>>
weekVars == <<date_value, now, week_num>>
genVars == <<df, label_mode, all_labels>>
numVars == <<value, default, num_val>>
brandVars == <<product_name, brand_parts>>
mergeVars == <<packages_df, products_df, merge_result, processed_data, packages_data,
               products_data, uploads>>
slotVars == <<zpl_content, zpl_filename, label_count, labels, message, clicks>>
labelVars == <<label_row, zpl>>
filterVars == <<date_selection, widgets, selections, filtered_df>>
vars == <<splitVars, weekVars, genVars, numVars, brandVars, mergeVars, slotVars, labelVars,
          filterVars>>

NotCalled == [done |-> FALSE]

\* the parts of the state a specification does not exercise
IdleSplit == /\ split_row = None
             /\ split_needed = NotCalled
             /\ split_quantities = NotCalled

IdleWeek == /\ date_value = None
            /\ now = [y |-> 2025, m |-> 1, d |-> 15]
            /\ week_num = NotCalled

IdleGen == /\ df = <<>>
           /\ label_mode = "package"
           /\ all_labels = NotCalled

IdleNum == /\ value = None
           /\ default = FZero
           /\ num_val = NotCalled

IdleBrand == /\ product_name = None
             /\ brand_parts = NotCalled

\* the session before any upload is processed (initialize_session_state)
IdleMerge == /\ packages_df = None
             /\ products_df = None
             /\ merge_result = NotCalled
             /\ processed_data = None
             /\ packages_data = None
             /\ products_data = None
             /\ uploads = 0

\* the output slot before any generation (initialize_session_state)
IdleSlot == /\ zpl_content = None
            /\ zpl_filename = None
            /\ label_count = 0
            /\ labels = NotCalled
            /\ message = None
            /\ clicks = 0

IdleLabel == /\ label_row = None
             /\ zpl = NotCalled

\* the filters before the Generate Labels tab is drawn (initialize_session_state)
IdleFilter == /\ date_selection = "today"
              /\ widgets = None
              /\ selections = None
              /\ filtered_df = NotCalled

-----------------------------------------------------------------------------
(* The quantity split engine applied to numeric CSV cells.                 *)

MaxQuantity == 21       \* quantity numerals are -1 .. MaxQuantity, in units or tenths
MaxUnits == 4           \* units-per-case numerals are -1 .. MaxUnits, in units or tenths
MaxCases == 30          \* inputs are kept to at most this many cases

\* the text of the numeral n / 10^k for k \in {0, 1}, e.g. "21", "2.1", "-0.1"
NumeralText(n, k) ==
    LET a == IF n < 0 THEN -n ELSE n
        body == IF k = 0 THEN IntToText(a)
                ELSE IntToText(a \div 10) \o <<46>> \o IntToText(a % 10)
    IN  IF n < 0 THEN <<45>> \o body ELSE body

SplitRow(qn, qk, un, uk) ==
    LET q == Str(NumeralText(qn, qk))
        u == Str(NumeralText(un, uk))
    IN  [Quantity |-> q, Units_Per_Case |-> u,
         Quantity_Num |-> safe_numeric(q, FZero),
         Units_Per_Case_Num |-> safe_numeric(u, FZero),
         qn |-> qn, qk |-> qk, un |-> un, uk |-> uk]

InitSplit ==
    /\ \E qn \in -1..MaxQuantity, qk \in 0..1, un \in -1..MaxUnits, uk \in 0..1 :
          /\ (un > 0 /\ qn > 0) => qn * Pow10(uk) <= MaxCases * un * Pow10(qk)
          /\ split_row = SplitRow(qn, qk, un, uk)
    /\ split_needed = NotCalled
    /\ split_quantities = NotCalled
    /\ IdleWeek /\ IdleGen /\ IdleNum /\ IdleBrand /\ IdleMerge /\ IdleSlot /\ IdleLabel /\ IdleFilter

ApplyCaseLabelsNeeded ==
    /\ ~split_needed.done
    /\ split_needed' =
          [done |-> TRUE,
           v |-> calculate_case_labels_needed(split_row.Quantity_Num,
                                              split_row.Units_Per_Case_Num),
           column |-> CaseLabelsNeededColumn(split_row.Quantity_Num,
                                             split_row.Units_Per_Case_Num)]
    /\ UNCHANGED <<split_row, split_quantities, weekVars, genVars, numVars, brandVars, mergeVars, slotVars, labelVars, filterVars>>

ApplyIndividualCaseQuantities ==
    /\ ~split_quantities.done
    /\ split_quantities' =
          [done |-> TRUE,
           v |-> calculate_individual_case_quantities(split_row.Quantity_Num,
                                                      split_row.Units_Per_Case_Num)]
    /\ UNCHANGED <<split_row, split_needed, weekVars, genVars, numVars, brandVars, mergeVars, slotVars, labelVars, filterVars>>

NextSplit == ApplyCaseLabelsNeeded \/ ApplyIndividualCaseQuantities

SpecSplit == InitSplit /\ [][NextSplit]_vars

-----------------------------------------------------------------------------
(* Properties of the quantity split engine.                                *)

\* exact (unrounded) x + y for x, y >= 0
ExactAdd(x, y) ==
    LET e0 == Min(x.e, y.e)
    IN  FNorm(FALSE, BAdd(BShl(x.m, x.e - e0), BShl(y.m, y.e - e0)), e0)

RECURSIVE ExactSumFrom(_, _, _)
ExactSumFrom(qs, i, acc) ==
    IF i > Len(qs) THEN acc
    ELSE LET a == ExactAdd(acc, qs[i])
         IN  IF a.kind = "num" THEN ExactSumFrom(qs, i + 1, a) ELSE a

ExactSum(qs) == ExactSumFrom(qs, 1, FZero)

\* ceil of the quotient of the two numerals of the row, in integer arithmetic
NumeralCeil(r) ==
    LET a == r.qn * Pow10(r.uk)
        b == r.un * Pow10(r.qk)
    IN  (a + b - 1) \div b

\* C6: for quantity > 0 and unitsPerCase > 0 the sequence returned by
\* calculate_individual_case_quantities has caseLabelsNeeded elements, all
\* equal to unitsPerCase except possibly the last, and they add up to
\* quantity; for quantity <= 0 or unitsPerCase <= 0 it is empty.
C6_SplitSequence ==
    split_quantities.done =>
        LET q == split_row.Quantity_Num
            u == split_row.Units_Per_Case_Num
            qs == split_quantities.v
        IN  IF FLeZero(q) \/ FLeZero(u) THEN qs = <<>>
            ELSE /\ Len(qs) = calculate_case_labels_needed(q, u)
                 /\ \A i \in 1..(Len(qs) - 1) : qs[i] = u
                 /\ ExactSum(qs) = q

\* C7: caseLabelsNeeded is 0 whenever quantity <= 0 or unitsPerCase <= 0 and
\* ceil(quantity / unitsPerCase) otherwise, and the "Case Labels Needed"
\* column of a merged record follows the same rule.
C7_CaseLabelsNeeded ==
    split_needed.done =>
        LET expected == IF split_row.qn <= 0 \/ split_row.un <= 0 THEN 0
                        ELSE NumeralCeil(split_row)
        IN  /\ split_needed.v = expected
            /\ split_needed.column = expected

-----------------------------------------------------------------------------
(* The symbol rotation selector applied to created-at values.              *)

FirstYear == 2024       \* dates range over FirstYear-01-01 .. LastYear-12-31
LastYear == 2027

\* the text YYYY-MM-DD of a date
DateText(date) ==
    IntToText(date.y) \o <<45>> \o TwoDigits(date.m) \o <<45>> \o TwoDigits(date.d)

Dates == {dt \in [y : FirstYear..LastYear, m : 1..12, d : 1..31] :
            dt.d <= DaysInMonth(dt.y, dt.m)}

\* "not a date", "2025-13-45", "" and a missing cell
UnparsableTexts == {<<110, 111, 116, 32, 97, 32, 100, 97, 116, 101>>,
                    <<50, 48, 50, 53, 45, 49, 51, 45, 52, 53>>,
                    <<>>}

NowDates == {[y |-> 2025, m |-> 1, d |-> 1], [y |-> 2025, m |-> 1, d |-> 15],
             [y |-> 2026, m |-> 12, d |-> 31]}

InitWeek ==
    /\ date_value \in {None} \cup {Str(t) : t \in UnparsableTexts}
                      \cup {Str(DateText(dt)) : dt \in Dates}
    /\ now \in NowDates
    /\ week_num = NotCalled
    /\ IdleSplit /\ IdleGen /\ IdleNum /\ IdleBrand /\ IdleMerge /\ IdleSlot /\ IdleLabel /\ IdleFilter

CallGetWeekNumber ==
    /\ ~week_num.done
    /\ week_num' = [done |-> TRUE, v |-> get_week_number(date_value, now)]
    /\ UNCHANGED <<date_value, now, splitVars, genVars, numVars, brandVars, mergeVars, slotVars, labelVars, filterVars>>

NextWeek == CallGetWeekNumber

SpecWeek == InitWeek /\ [][NextWeek]_vars

-----------------------------------------------------------------------------
(* Properties of the symbol rotation selector.                             *)

\* the argument is a text that parses to a date
Parsable(v) == ~IsNa(v) /\ to_datetime(v.s).ok /\ ~to_datetime(v.s).nat
DateOf(v) == to_datetime(v.s).date

\* the date n days after a date, by ordinal
DateAtOrdinal(o) ==
    CHOOSE dt \in [y : (FirstYear - 1)..(LastYear + 1), m : 1..12, d : 1..31] :
        dt.d <= DaysInMonth(dt.y, dt.m) /\ Ymd2Ord(dt.y, dt.m, dt.d) = o
PlusDays(date, n) == DateAtOrdinal(Ymd2Ord(date.y, date.m, date.d) + n)

\* C8: for a date in ISO week w the slot is ((w - 1) mod 18) + 1: it lies in
\* 1..18, is congruent to w modulo 18, and dates 18 ISO weeks later in the
\* same ISO year get the same slot.
C8_WeekSlot ==
    (week_num.done /\ Parsable(date_value)) =>
        LET iso == isocalendar(DateOf(date_value))
            later == PlusDays(DateOf(date_value), 18 * 7)
        IN  /\ week_num.v \in 1..18
            /\ (week_num.v - iso[2]) % 18 = 0
            /\ iso[2] <= 18 => week_num.v = iso[2]
            /\ isocalendar(later)[1] = iso[1]
                  => /\ isocalendar(later)[2] = iso[2] + 18
                     /\ get_week_number(Str(DateText(later)), now) = week_num.v

C8_Witness ==
    /\ week_num.done /\ Parsable(date_value)
    /\ isocalendar(DateOf(date_value))[2] = 53
    /\ week_num.v = 17

\* C9: the week that follows on the calendar gets the next slot, wrapping
\* after 18, also from the last ISO week of a year to week 1 of the next.
C9_ConsecutiveWeeks ==
    (week_num.done /\ Parsable(date_value)) =>
        get_week_number(Str(DateText(PlusDays(DateOf(date_value), 7))), now)
            = (week_num.v % 18) + 1

\* C10 as claimed: for an absent or unparsable date the slot is that of the
\* current date in America/Los_Angeles.
C10_AbsentOrUnparsableUsesNow ==
    (week_num.done /\ ~Parsable(date_value)) =>
        week_num.v = ((isocalendar(now)[2] - 1) % 18) + 1

\* C10 amended (the except branch returns 1): an absent date (None / NaN)
\* gives the slot of the current
\* date in America/Los_Angeles; a present but unparsable date gives slot 1.
C10_AbsentUsesNowUnparsableOne ==
    (week_num.done /\ ~Parsable(date_value)) =>
        IF IsNa(date_value)
        THEN week_num.v = ((isocalendar(now)[2] - 1) % 18) + 1
        ELSE week_num.v = 1

C10_Witness ==
    /\ week_num.done /\ ~IsNa(date_value) /\ ~Parsable(date_value)
    /\ isocalendar(now)[2] # 1
    /\ week_num.v = 1


-----------------------------------------------------------------------------
(* The batch generator applied to merged CSV imports.                      *)

MaxRows == 2            \* at most MaxRows package rows are imported
MaxOverride == 2        \* a Label Override cell is empty, 0 or 1..MaxOverride

\* the package rows an import is drawn from
PackageCatalog == <<
    \* A001, 55 units of a product with case size 25
    [Distru_Product |-> Str(<<67, 97, 109, 105, 110, 111, 32, 45, 32, 71, 117, 109, 109, 105, 101, 115>>), Package_Label |-> Str(<<65, 48, 48, 49>>), Quantity |-> Str(<<53, 53>>),
      Distru_Batch_Number |-> Str(<<66, 55>>), Status |-> Str(<<65, 99, 116, 105, 118, 101>>), Location |-> Str(<<86, 97, 117, 108, 116>>),
      Created_At_UTC |-> Str(<<50, 48, 50, 53, 45, 48, 49, 45, 49, 53>>), Category |-> Str(<<69, 100, 105, 98, 108, 101, 115>>)],
    \* B002, 10 units of a product that is not in the products table
    [Distru_Product |-> Str(<<80, 108, 97, 105, 110>>), Package_Label |-> Str(<<66, 48, 48, 50>>), Quantity |-> Str(<<49, 48>>),
      Distru_Batch_Number |-> None, Status |-> Str(<<65, 99, 116, 105, 118, 101>>), Location |-> Str(<<86, 97, 117, 108, 116>>),
      Created_At_UTC |-> None, Category |-> None],
    \* A001 again, for a different product
    [Distru_Product |-> Str(<<80, 108, 97, 105, 110>>), Package_Label |-> Str(<<65, 48, 48, 49>>), Quantity |-> Str(<<49, 48>>),
      Distru_Batch_Number |-> Str(<<66, 57>>), Status |-> Str(<<65, 99, 116, 105, 118, 101>>), Location |-> Str(<<86, 97, 117, 108, 116>>),
      Created_At_UTC |-> Str(<<50, 48, 50, 53, 45, 48, 51, 45, 48, 51>>), Category |-> None],
    \* C003, quantity 0, created-at text that is not a date
    [Distru_Product |-> Str(<<67, 97, 109, 105, 110, 111, 32, 45, 32, 71, 117, 109, 109, 105, 101, 115>>), Package_Label |-> Str(<<67, 48, 48, 51>>), Quantity |-> Str(<<48>>),
      Distru_Batch_Number |-> Str(<<66, 55>>), Status |-> Str(<<65, 99, 116, 105, 118, 101>>), Location |-> Str(<<86, 97, 117, 108, 116>>),
      Created_At_UTC |-> Str(<<110, 111, 116, 32, 97, 32, 100, 97, 116, 101>>), Category |-> None],
    \* B0020, 50 units of a product that has two rows in the products table
    [Distru_Product |-> Str(<<68, 117, 112, 32, 45, 32, 77, 105, 110, 116, 115>>), Package_Label |-> Str(<<66, 48, 48, 50, 48>>), Quantity |-> Str(<<53, 48>>),
      Distru_Batch_Number |-> Str(<<66, 56>>), Status |-> Str(<<65, 99, 116, 105, 118, 101>>), Location |-> Str(<<86, 97, 117, 108, 116>>),
      Created_At_UTC |-> Str(<<50, 48, 50, 53, 45, 48, 49, 45, 49, 53>>), Category |-> None],
    \* no package label, quantity -5
    [Distru_Product |-> Str(<<67, 97, 109, 105, 110, 111, 32, 45, 32, 71, 117, 109, 109, 105, 101, 115>>), Package_Label |-> None, Quantity |-> Str(<<45, 53>>),
      Distru_Batch_Number |-> None, Status |-> Str(<<65, 99, 116, 105, 118, 101>>), Location |-> Str(<<86, 97, 117, 108, 116>>),
      Created_At_UTC |-> None, Category |-> None] >>

\* the products table: "Camino - Gummies" with case size 25, and two rows
\* named "Dup - Mints", case sizes 20 and 25
ProductsTable == <<
    [Name |-> Str(<<67, 97, 109, 105, 110, 111, 32, 45, 32, 71, 117, 109, 109, 105, 101, 115>>), Units_Per_Case |-> Str(<<50, 53>>),
      Category |-> Str(<<69, 100, 105, 98, 108, 101>>), Vendor |-> Str(<<75, 105, 118, 97>>)],
    [Name |-> Str(<<68, 117, 112, 32, 45, 32, 77, 105, 110, 116, 115>>), Units_Per_Case |-> Str(<<50, 48>>),
      Category |-> None, Vendor |-> Str(<<75, 105, 118, 97>>)],
    [Name |-> Str(<<68, 117, 112, 32, 45, 32, 77, 105, 110, 116, 115>>), Units_Per_Case |-> Str(<<50, 53>>),
      Category |-> None, Vendor |-> Str(<<75, 105, 118, 97>>)] >>

\* the imports: sequences of distinct catalog rows, in any order
PackageImports ==
    UNION {{[i \in 1..n |-> PackageCatalog[f[i]]] :
                f \in {g \in [1..n -> 1..Len(PackageCatalog)] :
                          \A i, j \in 1..n : i # j => g[i] # g[j]}} : n \in 1..MaxRows}

\* filtered_df.insert(..., "Label Override", None)
WithOverrideColumn(frame) ==
    [i \in 1..Len(frame) |->
        [c \in DOMAIN frame[i] \cup {"Label_Override"} |->
            IF c = "Label_Override" THEN None ELSE frame[i][c]]]

Init ==
    /\ \E packages \in PackageImports :
          df = WithOverrideColumn(merge_data_sources(Frame(PackageColumns, packages),
                                                     Frame(ProductColumns, ProductsTable)).rows)
    /\ label_mode = "package"
    /\ all_labels = NotCalled
    /\ IdleSplit /\ IdleWeek /\ IdleNum /\ IdleBrand /\ IdleMerge /\ IdleSlot /\ IdleLabel /\ IdleFilter

\* the data editor stores a Label Override for one row
EditOverride ==
    /\ ~all_labels.done
    /\ \E i \in 1..Len(df), n \in 0..MaxOverride :
          /\ df[i].Label_Override # FromInt(n)
          /\ df' = [df EXCEPT ![i].Label_Override = FromInt(n)]
    /\ UNCHANGED <<label_mode, all_labels, splitVars, weekVars, numVars, brandVars, mergeVars, slotVars, labelVars, filterVars>>

\* the data editor clears the Label Override of one row
ClearOverride ==
    /\ ~all_labels.done
    /\ \E i \in 1..Len(df) :
          /\ ~IsNa(df[i].Label_Override)
          /\ df' = [df EXCEPT ![i].Label_Override = None]
    /\ UNCHANGED <<label_mode, all_labels, splitVars, weekVars, numVars, brandVars, mergeVars, slotVars, labelVars, filterVars>>

\* the Label Mode selectbox
SelectLabelMode ==
    /\ ~all_labels.done
    /\ \E m \in {"package", "case"} :
          /\ m # label_mode
          /\ label_mode' = m
    /\ UNCHANGED <<df, all_labels, splitVars, weekVars, numVars, brandVars, mergeVars, slotVars, labelVars, filterVars>>

\* the returned batch v (generate_all_labels(df, label_mode, now)) together
\* with the sorted frame and what each of its rows contributed
Returned(df_sorted, emitted) ==
    [done |-> TRUE, v |-> Flatten(emitted), rows |-> df_sorted, emitted |-> emitted]

CallGenerateAllLabels ==
    /\ ~all_labels.done
    /\ all_labels' = Returned(SortByPackageLabel(df), Emissions(df, label_mode, now))
    /\ UNCHANGED <<df, label_mode, splitVars, weekVars, numVars, brandVars, mergeVars, slotVars, labelVars, filterVars>>

Next == EditOverride \/ ClearOverride \/ SelectLabelMode \/ CallGenerateAllLabels

Spec == Init /\ [][Next]_vars


-----------------------------------------------------------------------------
(* Properties of the batch generator.                                      *)

\* the text of the quantity line of a document
DocQtyText(doc) ==
    LET k == CHOOSE k \in 1..Len(doc) : doc[k].blk = "qty" /\ doc[k].cmd = "^FO^FD"
    IN  doc[k].text

\* the package identifier printed on a document, None if it has none
DocUid(doc) ==
    IF \E k \in 1..Len(doc) : doc[k].blk = "uid" /\ doc[k].cmd = "^FO^FD"
    THEN Str(doc[CHOOSE k \in 1..Len(doc) : doc[k].blk = "uid" /\ doc[k].cmd = "^FO^FD"].text)
    ELSE None

CaseQtyOf(row) == <<67, 97, 115, 101, 32, 81, 116, 121, 58, 32>> \o row.Units_Per_Case.s
CaseQtyNA == <<67, 97, 115, 101, 32, 81, 116, 121, 58, 32, 78, 47, 65>>

HasOverride(row) == ~IsNa(row.Label_Override)
QuantityPositive(row) == FGtZero(row.Quantity_Num)
UnitsPositive(row) == FGtZero(row.Units_Per_Case_Num)
SortedRows == 1..Len(all_labels.rows)

\* C1: a record whose override is 0 emits no document and a record whose
\* override is a positive n emits exactly n documents, under either label
\* mode.
C1_OverrideCounts ==
    all_labels.done =>
        \A i \in SortedRows :
            LET row == all_labels.rows[i]
            IN  \A n \in 0..MaxOverride :
                    row.Label_Override = FromInt(n) =>
                        /\ Len(all_labels.emitted[i]) = n
                        /\ \A m \in {"package", "case"} :
                              Len(RowEmission(row, m, now)) = n

C1_Witness ==
    /\ all_labels.done /\ label_mode = "case"
    /\ \E i, j \in SortedRows :
          /\ all_labels.rows[i].Label_Override = FromInt(0)
          /\ QuantityPositive(all_labels.rows[i]) /\ UnitsPositive(all_labels.rows[i])
          /\ all_labels.emitted[i] = <<>>
          /\ all_labels.rows[j].Label_Override = FromInt(MaxOverride)
          /\ Len(all_labels.emitted[j]) = MaxOverride

\* C2 as claimed: a record with quantity <= 0 emits no document, whatever
\* the label mode and whatever its override.
C2_NonPositiveQuantityEmitsNothing ==
    all_labels.done =>
        \A i \in SortedRows :
            ~QuantityPositive(all_labels.rows[i]) => all_labels.emitted[i] = <<>>

\* C2 amended (the override branch of generate_all_labels does not look at
\* the quantity): a record with quantity <= 0 emits no document under either
\* label mode when its override is absent or 0; with a positive override n
\* it emits n documents.
C2_NonPositiveQuantityWithoutOverride ==
    all_labels.done =>
        \A i \in SortedRows :
            LET row == all_labels.rows[i]
            IN  ~QuantityPositive(row) =>
                    IF HasOverride(row) /\ row.Label_Override # FromInt(0)
                    THEN \E n \in 1..MaxOverride :
                            /\ row.Label_Override = FromInt(n)
                            /\ Len(all_labels.emitted[i]) = n
                    ELSE all_labels.emitted[i] = <<>>

C2_Witness ==
    /\ all_labels.done
    /\ \E i, j \in SortedRows :
          /\ ~QuantityPositive(all_labels.rows[i]) /\ ~HasOverride(all_labels.rows[i])
          /\ UnitsPositive(all_labels.rows[i])
          /\ all_labels.emitted[i] = <<>>
          /\ ~QuantityPositive(all_labels.rows[j])
          /\ all_labels.rows[j].Label_Override = FromInt(MaxOverride)
          /\ Len(all_labels.emitted[j]) = MaxOverride

\* the frame with rows i and j exchanged
SwapRows(frame, i, j) ==
    [k \in 1..Len(frame) |-> IF k = i THEN frame[j] ELSE IF k = j THEN frame[i] ELSE frame[k]]

\* exchanging any two input rows leaves the batch unchanged (every ordering
\* of a collection is reached by exchanges)
OrderIndependent ==
    \A i, j \in 1..Len(df) :
        i < j => generate_all_labels(SwapRows(df, i, j), label_mode, now) = all_labels.v

\* documents appear in ascending order of package identifier, documents
\* without identifier last
AscendingIdentifiers ==
    \A a, b \in 1..Len(all_labels.v) :
        a < b => ~LabelLess(DocUid(all_labels.v[b]), DocUid(all_labels.v[a]))

DistinctIdentifiers ==
    \A i, j \in 1..Len(df) : i # j => df[i].Package_Label # df[j].Package_Label

\* C3 as claimed: the batch is the same for every ordering of the input
\* rows, and its documents are in ascending package-identifier order.
C3_OrderIndependent ==
    all_labels.done => (OrderIndependent /\ AscendingIdentifiers)

\* C3 amended (the sort key is the package label alone, so rows that share a
\* label keep their input order): the documents are in ascending
\* package-identifier order, documents without identifier last, and
\* when the package identifiers of the rows are pairwise distinct the batch
\* is the same for every ordering of the input rows.
C3_OrderIndependentForDistinctIdentifiers ==
    all_labels.done =>
        /\ AscendingIdentifiers
        /\ DistinctIdentifiers => OrderIndependent

C3_Witness ==
    /\ all_labels.done /\ DistinctIdentifiers
    /\ Len(df) >= 2
    /\ LabelLess(df[2].Package_Label, df[1].Package_Label)
    /\ Len(all_labels.v) >= 2
    /\ DocUid(all_labels.v[1]) = df[2].Package_Label
    /\ DocUid(all_labels.v[Len(all_labels.v)]) = df[1].Package_Label

\* the least c with c * u >= q, for positive integers
IntCeilDiv(q, u) == (q + u - 1) \div u

\* C4: in case mode a record without override, with quantity > 0 and case
\* size > 0, emits calculate_case_labels_needed(quantity, case size)
\* documents, and each of them shows the full case size on its quantity line.
\* The quantities and case sizes of the catalog are whole numbers: the count
\* is then also the integer ceiling, and the line shows the case size as it
\* is written in the products table.
C4_CaseModeFullCases ==
    (all_labels.done /\ label_mode = "case") =>
        \A i \in SortedRows :
            LET row == all_labels.rows[i]
            IN  (~HasOverride(row) /\ QuantityPositive(row) /\ UnitsPositive(row)) =>
                    /\ Len(all_labels.emitted[i]) =
                          calculate_case_labels_needed(row.Quantity_Num,
                                                       row.Units_Per_Case_Num)
                    /\ Len(all_labels.emitted[i]) =
                          IntCeilDiv(DigitsValue(row.Quantity.s),
                                     DigitsValue(row.Units_Per_Case.s))
                    /\ \A c \in 1..Len(all_labels.emitted[i]) :
                          DocQtyText(all_labels.emitted[i][c]) = CaseQtyOf(row)

C4_Witness ==
    /\ all_labels.done /\ label_mode = "case"
    /\ \E i \in SortedRows :
          LET row == all_labels.rows[i]
          IN  /\ ~HasOverride(row)
              /\ row.Quantity = Str(<<53, 53>>) /\ row.Units_Per_Case = Str(<<50, 53>>)
              /\ Len(all_labels.emitted[i]) = 3
              /\ DocQtyText(all_labels.emitted[i][3]) = <<67, 97, 115, 101, 32, 81, 116, 121, 58, 32, 50, 53>>

\* C5: in package mode a record without override and with quantity > 0
\* emits exactly one document; its quantity line shows the case size when
\* that is > 0 and N/A otherwise.
C5_PackageModeOneLabel ==
    (all_labels.done /\ label_mode = "package") =>
        \A i \in SortedRows :
            LET row == all_labels.rows[i]
            IN  (~HasOverride(row) /\ QuantityPositive(row)) =>
                    /\ Len(all_labels.emitted[i]) = 1
                    /\ DocQtyText(all_labels.emitted[i][1]) =
                          IF UnitsPositive(row) THEN CaseQtyOf(row) ELSE CaseQtyNA

C5_Witness ==
    /\ all_labels.done /\ label_mode = "package"
    /\ \E i, j \in SortedRows :
          /\ ~HasOverride(all_labels.rows[i]) /\ QuantityPositive(all_labels.rows[i])
          /\ UnitsPositive(all_labels.rows[i])
          /\ Len(all_labels.emitted[i]) = 1
          /\ DocQtyText(all_labels.emitted[i][1]) = <<67, 97, 115, 101, 32, 81, 116, 121, 58, 32, 50, 53>>
          /\ ~HasOverride(all_labels.rows[j]) /\ QuantityPositive(all_labels.rows[j])
          /\ ~UnitsPositive(all_labels.rows[j])
          /\ Len(all_labels.emitted[j]) = 1
          /\ DocQtyText(all_labels.emitted[j][1]) = CaseQtyNA


-----------------------------------------------------------------------------
(* safe_numeric applied to CSV cells.                                      *)

\* "1e2", "1E2", "12.0", " 7 ", "+3", ".5", "5.", "2.5e1", "0e999", "1e-999", "-0.0", "1e+3", "007"
FiniteTexts ==
    {<<49, 101, 50>>,
     <<49, 69, 50>>,
     <<49, 50, 46, 48>>,
     <<32, 55, 32>>,
     <<43, 51>>,
     <<46, 53>>,
     <<53, 46>>,
     <<50, 46, 53, 101, 49>>,
     <<48, 101, 57, 57, 57>>,
     <<49, 101, 45, 57, 57, 57>>,
     <<45, 48, 46, 48>>,
     <<49, 101, 43, 51>>,
     <<48, 48, 55>>}

\* "nan", "NaN", "inf", "-inf", "Infinity", "+INF", "1e999", "-1e999"
NonFiniteTexts ==
    {<<110, 97, 110>>,
     <<78, 97, 78>>,
     <<105, 110, 102>>,
     <<45, 105, 110, 102>>,
     <<73, 110, 102, 105, 110, 105, 116, 121>>,
     <<43, 73, 78, 70>>,
     <<49, 101, 57, 57, 57>>,
     <<45, 49, 101, 57, 57, 57>>}

\* "abc", "1e", "e5", "--1", "1.2.3", "1 2", "12a", ".", "-", "1e+"
InvalidTexts ==
    {<<97, 98, 99>>,
     <<49, 101>>,
     <<101, 53>>,
     <<45, 45, 49>>,
     <<49, 46, 50, 46, 51>>,
     <<49, 32, 50>>,
     <<49, 50, 97>>,
     <<46>>,
     <<45>>,
     <<49, 101, 43>>}

\* "", " ", "\t "
BlankTexts ==
    {<<>>,
     <<32>>,
     <<9, 32>>}

\* the numerals n / 10^k of the quantity columns
NumeralTexts == {NumeralText(n, k) : n \in -1..MaxQuantity, k \in 0..1}

InitNumeric ==
    /\ value \in {None} \cup {Str(t) : t \in FiniteTexts \cup NonFiniteTexts \cup InvalidTexts
                                              \cup BlankTexts \cup NumeralTexts}
    /\ default \in {FZero, FromInt(7)}
    /\ num_val = NotCalled
    /\ IdleSplit /\ IdleWeek /\ IdleGen /\ IdleBrand /\ IdleMerge /\ IdleSlot /\ IdleLabel /\ IdleFilter

CallSafeNumeric ==
    /\ ~num_val.done
    /\ num_val' = [done |-> TRUE, v |-> safe_numeric(value, default)]
    /\ UNCHANGED <<value, default, splitVars, weekVars, genVars, brandVars, mergeVars,
                   slotVars, labelVars, filterVars>>

NextNumeric == CallSafeNumeric

SpecNumeric == InitNumeric /\ [][NextNumeric]_vars

-----------------------------------------------------------------------------
(* Properties of safe_numeric.                                             *)

\* the cell is a numeral of the quantity columns with an integral value
IntegralNumeral(n, k) == ~IsNa(value) /\ value.s = NumeralText(n, k) /\ n % Pow10(k) = 0

\* C11: safe_numeric returns a value for every input and never raises; an
\* input that is absent, blank, not a number, nan or infinite gives the
\* default; an integral numeral gives that integer.
C11_SafeNumericTotal ==
    num_val.done =>
        /\ num_val.v.kind # "raise"
        /\ (IsNa(value) \/ value.s \in BlankTexts \cup InvalidTexts \cup NonFiniteTexts)
              => num_val.v = default
        /\ \A n \in -1..MaxQuantity, k \in 0..1 :
              IntegralNumeral(n, k) => num_val.v = FromInt(n \div Pow10(k))

-----------------------------------------------------------------------------
(* extract_brand applied to product names.                                 *)

MaxNameLen == 4         \* product names are all texts of at most this length over NameAlphabet
NameAlphabet == {65, 32, 45}    \* "A", " ", "-"

RECURSIVE TextsUpTo(_)
TextsUpTo(n) ==
    IF n = 0 THEN {<<>>}
    ELSE LET shorter == TextsUpTo(n - 1)
         IN  shorter \cup {Append(t, c) : t \in {s \in shorter : Len(s) = n - 1},
                                          c \in NameAlphabet}

\* "A-B-C", "NoDelimiterName", "Camino - Gummies", "A-B - C", " A - B - C "
SampleNames ==
    {<<65, 45, 66, 45, 67>>,
     <<78, 111, 68, 101, 108, 105, 109, 105, 116, 101, 114, 78, 97, 109, 101>>,
     <<67, 97, 109, 105, 110, 111, 32, 45, 32, 71, 117, 109, 109, 105, 101, 115>>,
     <<65, 45, 66, 32, 45, 32, 67>>,
     <<32, 65, 32, 45, 32, 66, 32, 45, 32, 67, 32>>}

InitBrand ==
    /\ product_name \in {None} \cup {Str(t) : t \in TextsUpTo(MaxNameLen) \cup SampleNames}
    /\ brand_parts = NotCalled
    /\ IdleSplit /\ IdleWeek /\ IdleGen /\ IdleNum /\ IdleMerge /\ IdleSlot /\ IdleLabel /\ IdleFilter

CallExtractBrand ==
    /\ ~brand_parts.done
    /\ brand_parts' = [done |-> TRUE, v |-> extract_brand(product_name)]
    /\ UNCHANGED <<product_name, splitVars, weekVars, genVars, numVars, mergeVars,
                   slotVars, labelVars, filterVars>>

NextBrand == CallExtractBrand

SpecBrand == InitBrand /\ [][NextBrand]_vars

-----------------------------------------------------------------------------
(* Properties of extract_brand.                                            *)

\* pat occurs in t at position i and nowhere before
FirstAt(t, pat, i) ==
    /\ i \in 1..(Len(t) - Len(pat) + 1)
    /\ \A j \in 1..i : (SubSeq(t, j, j + Len(pat) - 1) = pat) <=> (j = i)

Contains(t, pat) == \E i \in 1..Len(t) : FirstAt(t, pat, i)

\* the trimmed texts before and after the delimiter pat found at position i
SplitAt(t, pat, i) ==
    <<Strip(SubSeq(t, 1, i - 1)), Strip(SubSeq(t, i + Len(pat), Len(t)))>>

SpacedHyphen == <<32, 45, 32>>
BareHyphen == <<45>>

C13_AbsentGivesEmptyPair ==
    (brand_parts.done /\ ~Present(product_name)) => brand_parts.v = <<<<>>, <<>>>>

-----------------------------------------------------------------------------
(* The Process Data button: load both uploads, merge, store the result.    *)

MaxUploads == 2         \* Process Data is pressed at most this many times

\* load_csv: None for a CSV without rows
load_csv(uploaded_file) == IF uploaded_file.rows = <<>> THEN None ELSE uploaded_file

\* a table exported without the column c
WithoutColumn(frame, c) ==
    Frame(frame.columns \ {c}, [i \in 1..Len(frame.rows) |-> [frame.rows[i] EXCEPT ![c] = None]])

\* a package whose Quantity cell reads "inf"
InfinitePackage == [PackageCatalog[2] EXCEPT !.Quantity = Str(<<105, 110, 102>>)]

\* a products table in which no name is a package's product name
OtherProducts == <<
    [Name |-> Str(<<79, 116, 104, 101, 114>>), Units_Per_Case |-> Str(<<49, 50>>),
      Category |-> None, Vendor |-> None] >>

PackageUploads ==
    {Frame(PackageColumns, rows) :
        rows \in {<<>>, <<PackageCatalog[1], PackageCatalog[2]>>,
                  <<PackageCatalog[5], PackageCatalog[1]>>, <<PackageCatalog[2]>>,
                  <<InfinitePackage>>}}
    \cup {WithoutColumn(Frame(PackageColumns, <<PackageCatalog[1], PackageCatalog[2]>>), c) :
             c \in PackageColumns}

ProductUploads ==
    {Frame(ProductColumns, rows) : rows \in {<<>>, ProductsTable, OtherProducts}}
    \cup {WithoutColumn(Frame(ProductColumns, ProductsTable), c) : c \in ProductColumns}

InitMerge ==
    /\ IdleMerge
    /\ IdleSplit /\ IdleWeek /\ IdleGen /\ IdleNum /\ IdleBrand /\ IdleSlot /\ IdleLabel /\ IdleFilter

ProcessedDataAfter_Unconditional(previous, result) == result

\* st.session_state.processed_data after the merge returned result
ProcessedDataAfter(previous, result) == IF ~IsNa(result) THEN result ELSE previous

\* merge_data_sources ran on both tables and returned result
Merged(result) ==
    /\ merge_result' = [done |-> TRUE, v |-> result]
    /\ packages_data' = packages_df'
    /\ products_data' = products_df'
    /\ processed_data' = ProcessedDataAfter(processed_data, result)

ProcessData ==
    /\ uploads < MaxUploads
    /\ uploads' = uploads + 1
    /\ \E packages_file \in PackageUploads, products_file \in ProductUploads :
          /\ packages_df' = load_csv(packages_file)
          /\ products_df' = load_csv(products_file)
    /\ IF IsNa(packages_df') \/ IsNa(products_df')
       THEN /\ merge_result' = NotCalled
            /\ UNCHANGED <<processed_data, packages_data, products_data>>
       ELSE Merged(merge_data_sources(packages_df', products_df'))
    /\ UNCHANGED <<splitVars, weekVars, genVars, numVars, brandVars, slotVars, labelVars, filterVars>>

NextMerge == ProcessData

SpecMerge == InitMerge /\ [][NextMerge]_vars

-----------------------------------------------------------------------------
(* Properties of the merge.                                                *)

HasRequiredColumns(packages, products) ==
    PackageColumns \subseteq packages.columns /\ ProductColumns \subseteq products.columns

\* C14: for tables that have the required columns the merge gives exactly
\* one record per package row, in the order of the package rows.
C14_OneRecordPerPackageRow ==
    (merge_result.done /\ HasRequiredColumns(packages_df, products_df)) =>
        /\ merge_result.v.kind = "frame"
        /\ Len(merge_result.v.rows) = Len(packages_df.rows)
        /\ \A i \in 1..Len(packages_df.rows) :
              /\ merge_result.v.rows[i].Product_Name = packages_df.rows[i].Distru_Product
              /\ merge_result.v.rows[i].Package_Label = packages_df.rows[i].Package_Label

\* C15: when one of the two tables lacks a required column the merge
\* returns None and processed_data keeps the value it had before.
C15_MissingColumnKeepsProcessedData ==
    [][(merge_result'.done /\ ~HasRequiredColumns(packages_df', products_df'))
          => (merge_result'.v = None /\ processed_data' = processed_data)]_vars

\* a second press with a table lacking a column, after a first press that
\* stored a merged frame
C15_Witness ==
    /\ uploads = 2
    /\ merge_result.done /\ ~HasRequiredColumns(packages_df, products_df)
    /\ merge_result.v = None
    /\ ~IsNa(processed_data)
    /\ Len(processed_data.rows) >= 1

-----------------------------------------------------------------------------
(* Rows without case size in case mode.                                    *)

\* the frame without its j-th row
RemoveAt(frame, j) == SubSeq(frame, 1, j - 1) \o SubSeq(frame, j + 1, Len(frame))

NoCaseSize(row) == ~HasOverride(row) /\ ~UnitsPositive(row)

\* C17: in case mode a record without override and without case size
\* (Units_Per_Case_Num <= 0) contributes no document, and the batch is
\* exactly the batch of the input without that record.
C17_NoCaseSizeSkipsOnlyThatRecord ==
    (all_labels.done /\ label_mode = "case") =>
        \A j \in 1..Len(df) :
            NoCaseSize(df[j]) =>
                /\ \A i \in SortedRows :
                      all_labels.rows[i] = df[j] => all_labels.emitted[i] = <<>>
                /\ all_labels.v = generate_all_labels(RemoveAt(df, j), label_mode, now)

\* B002 (10 units, no case size) and A001 (55 units, case size 25): the
\* batch is the three case labels of A001
C17_Witness ==
    /\ all_labels.done /\ label_mode = "case"
    /\ Len(df) = 2
    /\ NoCaseSize(df[1]) /\ QuantityPositive(df[1])
    /\ df[1].Package_Label = Str(<<66, 48, 48, 50>>)
    /\ df[2].Package_Label = Str(<<65, 48, 48, 49>>) /\ ~HasOverride(df[2])
    /\ Len(all_labels.v) = 3
    /\ \A k \in 1..3 : DocUid(all_labels.v[k]) = Str(<<65, 48, 48, 49>>)

-----------------------------------------------------------------------------
(* The Generate button and the output slot of the session.                 *)

MaxClicks == 2          \* the Generate button is pressed at most this many times

\* the uploads of the session: A001 and B0020 (two brands), B002 without
\* brand and A001, and C003 alone whose quantity is 0
SessionImports ==
    {<<PackageCatalog[1], PackageCatalog[5]>>,
     <<PackageCatalog[2], PackageCatalog[1]>>,
     <<PackageCatalog[4]>>}

\* a products table with one row per name
SessionProducts == SubSeq(ProductsTable, 1, 2)

\* pd.Timestamp.now() when the button is pressed
ClockReadings ==
    {[y |-> 2025, m |-> 1, d |-> 15, H |-> 9, M |-> 5, S |-> 7],
     [y |-> 2025, m |-> 1, d |-> 15, H |-> 23, M |-> 59, S |-> 59]}

InitSession ==
    /\ \E packages \in SessionImports :
          df = WithOverrideColumn(merge_data_sources(Frame(PackageColumns, packages),
                                                     Frame(ProductColumns, SessionProducts)).rows)
    /\ label_mode = "package"
    /\ all_labels = NotCalled
    /\ IdleSplit /\ IdleWeek /\ IdleNum /\ IdleBrand /\ IdleMerge /\ IdleSlot /\ IdleLabel /\ IdleFilter

\* "\n".join(labels): the lines of the documents, one after the other
JoinLabels(batch) == [kind |-> "zpl", lines |-> Flatten(batch)]

Generated_AlwaysWrites(batch, filename) ==
    /\ labels' = [done |-> TRUE, v |-> batch]
    /\ zpl_content' = JoinLabels(batch)
    /\ zpl_filename' = Str(filename)
    /\ label_count' = Len(batch)
    /\ message' = IF batch = <<>> THEN [kind |-> "error"]
                  ELSE [kind |-> "success", count |-> Len(batch)]

\* the body of the Generate button after generate_all_labels returned batch;
\* filename is what generate_filename gives
Generated(batch, filename) ==
    /\ labels' = [done |-> TRUE, v |-> batch]
    /\ IF batch = <<>>
       THEN /\ message' = [kind |-> "error"]
            /\ UNCHANGED <<zpl_content, zpl_filename, label_count>>
       ELSE /\ zpl_content' = JoinLabels(batch)
            /\ zpl_filename' = Str(filename)
            /\ label_count' = Len(batch)
            /\ message' = [kind |-> "success", count |-> Len(batch)]

\* the Generate button, shown when total_labels > 0
ClickGenerate ==
    /\ clicks < MaxClicks
    /\ total_labels(df, label_mode) > 0
    /\ clicks' = clicks + 1
    /\ \E clock \in ClockReadings :
          Generated(generate_all_labels(df, label_mode, now),
                    generate_filename(df, label_mode, clock))
    /\ UNCHANGED <<genVars, splitVars, weekVars, numVars, brandVars, mergeVars, labelVars, filterVars>>

NextSession == EditOverride \/ ClearOverride \/ SelectLabelMode \/ ClickGenerate

SpecSession == InitSession /\ [][NextSession]_vars

-----------------------------------------------------------------------------
(* Properties of the output slot.                                          *)

\* the number of documents in a joined batch: its "^XA" lines
DocumentCount(content) ==
    Cardinality({k \in 1..Len(content.lines) : content.lines[k].blk = "start"})

\* the slot is empty, or holds a batch of at least one document, its file
\* name and its number of documents
SlotWrittenTogether ==
    IF IsNa(zpl_content) THEN IsNa(zpl_filename) /\ label_count = 0
    ELSE /\ ~IsNa(zpl_filename)
         /\ label_count >= 1
         /\ label_count = DocumentCount(zpl_content)

\* a press of the button that gave no document reports an error and leaves
\* the slot as it was; any other press writes the three entries
PressWritesOrReports ==
    (clicks' = clicks + 1) =>
        IF labels'.v = <<>>
        THEN /\ message'.kind = "error"
             /\ UNCHANGED <<zpl_content, zpl_filename, label_count>>
        ELSE /\ message'.kind = "success"
             /\ zpl_content' = JoinLabels(labels'.v)
             /\ ~IsNa(zpl_filename')
             /\ label_count' = Len(labels'.v)

\* C16: a generation run without documents reports an error and writes none
\* of zpl_content, zpl_filename and label_count; the three are written
\* together, label_count being the number of documents, only by a run that
\* produced at least one document.
C16_EmptyRunLeavesSlot == []SlotWrittenTogether /\ [][PressWritesOrReports]_vars

\* a second run without documents after a run that filled the slot
C16_Witness ==
    /\ clicks = 2
    /\ labels.done /\ labels.v = <<>>
    /\ message.kind = "error"
    /\ ~IsNa(zpl_content) /\ ~IsNa(zpl_filename)
    /\ label_count >= 1

RECURSIVE EmittingRows(_)
\* the rows that generate_all_labels emits at least one document for
EmittingRows(frame) ==
    IF frame = <<>> THEN <<>>
    ELSE (IF RowEmission(frame[1], label_mode, now) # <<>> THEN <<frame[1]>> ELSE <<>>)
         \o EmittingRows(Tail(frame))

\* brand(s) of the batch: one brand cut to 20 characters, two or three
\* joined and each cut to 10, four or more replaced by their number
BrandSummary(brands) ==
    IF Len(brands) = 1 THEN Take(ReplaceSpaces(brands[1]), 20)
    ELSE IF Len(brands) <= 3
    THEN JoinTexts([k \in 1..Len(brands) |-> Take(ReplaceSpaces(brands[k]), 10)], <<95>>)
    ELSE <<77, 117, 108, 116, 105, 112, 108, 101, 95>> \o IntToText(Len(brands))
         \o <<95, 98, 114, 97, 110, 100, 115>>

HasPrefix(t, prefix) == Len(t) >= Len(prefix) /\ SubSeq(t, 1, Len(prefix)) = prefix

\* C18: the brand part of the file name summarizes the distinct brands of
\* the records that emitted documents in the run.
C18_FilenameBrandsOfBatch ==
    [][(clicks' = clicks + 1 /\ labels'.v # <<>>) =>
          HasPrefix(zpl_filename'.s,
                    <<100, 99, 95, 108, 97, 98, 101, 108, 115, 95>>
                    \o BrandSummary(UniqueBrands(EmittingRows(df), <<>>))
                    \o <<95>> \o ModePart(label_mode) \o <<95>>)]_vars

-----------------------------------------------------------------------------
(* generate_label_zpl applied to merged rows.                              *)

\* the cells of the package row of a label: a missing cell or a text
\* "Camino - Gummies", " ", "Solo -"
ProductNameCells ==
    {None,
     Str(<<67, 97, 109, 105, 110, 111, 32, 45, 32, 71, 117, 109, 109, 105, 101, 115>>),
     Str(<<32>>),
     Str(<<83, 111, 108, 111, 32, 45>>)}
\* "A001", " "
PackageLabelCells == {None, Str(<<65, 48, 48, 49>>), Str(<<32>>)}
\* "B7"
BatchCells == {None, Str(<<66, 55>>)}
\* "Edibles"
CategoryCells == {None, Str(<<69, 100, 105, 98, 108, 101, 115>>)}
\* "2025-01-15", "2025-04-28", "2026-12-31", "not a date", "2025-13-45"
CreatedCells ==
    {None,
     Str(<<50, 48, 50, 53, 45, 48, 49, 45, 49, 53>>),
     Str(<<50, 48, 50, 53, 45, 48, 52, 45, 50, 56>>),
     Str(<<50, 48, 50, 54, 45, 49, 50, 45, 51, 49>>),
     Str(<<110, 111, 116, 32, 97, 32, 100, 97, 116, 101>>),
     Str(<<50, 48, 50, 53, 45, 49, 51, 45, 52, 53>>)}

LabelPackages ==
    {[PackageCatalog[2] EXCEPT !.Distru_Product = name, !.Package_Label = uid,
                               !.Distru_Batch_Number = batch, !.Category = category,
                               !.Created_At_UTC = created] :
        name \in ProductNameCells, uid \in PackageLabelCells, batch \in BatchCells,
        category \in CategoryCells, created \in CreatedCells}

\* the Units Per Case cell of the product of the label: "25", "2.5", "1e2",
\* "0", "abc" or missing
UnitsCells ==
    {None, Str(<<50, 53>>), Str(<<50, 46, 53>>), Str(<<49, 101, 50>>), Str(<<48>>),
     Str(<<97, 98, 99>>)}

LabelProducts == {<<[ProductsTable[1] EXCEPT !.Units_Per_Case = units]>> : units \in UnitsCells}

InitLabel ==
    /\ \E package \in LabelPackages, products \in LabelProducts :
          label_row = merge_data_sources(Frame(PackageColumns, <<package>>),
                                         Frame(ProductColumns, products)).rows[1]
    /\ zpl = NotCalled
    /\ IdleSplit /\ IdleWeek /\ IdleGen /\ IdleNum /\ IdleBrand /\ IdleMerge /\ IdleSlot /\ IdleFilter

\* the label of the row in package mode
CallGenerateLabelZpl ==
    /\ ~zpl.done
    /\ zpl' = [done |-> TRUE, v |-> generate_labels_for_row(label_row, "package", now)[1]]
    /\ UNCHANGED <<label_row, splitVars, weekVars, genVars, numVars, brandVars, mergeVars,
                   slotVars, filterVars>>

NextLabel == CallGenerateLabelZpl

SpecLabel == InitLabel /\ [][NextLabel]_vars

-----------------------------------------------------------------------------
(* Properties of the composed label.                                       *)

IsTextLine(line) == line.cmd = "^FO^FD"

\* the texts of the lines of a block of the label
BlockTexts(blk) ==
    {zpl.v[k].text : k \in {j \in 1..Len(zpl.v) : zpl.v[j].blk = blk /\ IsTextLine(zpl.v[j])}}

CreatedPrefix == <<67, 114, 101, 97, 116, 101, 100, 58, 32>>

\* C19: the label has a "Created: ..." line exactly when the timestamp of
\* the record is present and can be parsed as a date.
C19_CreatedLineOnlyWhenParsable ==
    zpl.done => ((BlockTexts("created") # {}) <=> Parsable(label_row.Created_At_Full))

\* C19 as the composer does it: the line is there exactly when the timestamp
\* is present; it shows MM/DD/YYYY for a date and the text of the cell, as
\* it is, when the cell cannot be parsed.
C19_CreatedLineWhenPresent ==
    zpl.done =>
        LET cell == label_row.Created_At_Full
        IN  /\ ~Present(cell) => BlockTexts("created") = {}
            /\ Parsable(cell) =>
                  BlockTexts("created") = {CreatedPrefix \o Strftime(DateOf(cell))}
            /\ (Present(cell) /\ ~Parsable(cell)) =>
                  BlockTexts("created") = {CreatedPrefix \o cell.s}

\* "not a date" is printed as "Created: not a date"
C19_Witness ==
    /\ zpl.done
    /\ label_row.Created_At_Full = Str(<<110, 111, 116, 32, 97, 32, 100, 97, 116, 101>>)
    /\ BlockTexts("created") = {CreatedPrefix \o <<110, 111, 116, 32, 97, 32, 100, 97, 116, 101>>}

\* no text line of the label is empty or blank
NoBlankText ==
    \A k \in 1..Len(zpl.v) : IsTextLine(zpl.v[k]) => Strip(zpl.v[k].text) # <<>>

Omitted(blk) == \A k \in 1..Len(zpl.v) : zpl.v[k].blk # blk

\* a cell without data: missing, empty or blank
NoData(cell) == IsNa(cell) \/ Strip(cell.s) = <<>>

\* C20: a field without data is left out of the label: no text line is
\* blank, and the brand, category, product name, identifier, QR and batch
\* blocks are absent when their value is empty or absent.
C20_EmptyFieldsOmitted ==
    zpl.done =>
        /\ NoBlankText
        /\ NoData(label_row.Brand) => BlockTexts("brand") = {}
        /\ NoData(label_row.Category) => Omitted("category")
        /\ NoData(label_row.Product_Name) => BlockTexts("product") = {}
        /\ NoData(label_row.Package_Label) => (Omitted("uid") /\ Omitted("qr"))
        /\ NoData(label_row.Batch_No) => Omitted("batch")

-----------------------------------------------------------------------------
(* Structure of the composed label.                                        *)

\* the place of a block in the layout
BlockRank(blk) ==
    CASE blk = "start" -> 0
      [] blk = "bar" -> 1
      [] blk = "brand" -> 2
      [] blk = "category" -> 3
      [] blk = "product" -> 4
      [] blk = "uid" -> 5
      [] blk = "created" -> 6
      [] blk = "qr" -> 7
      [] blk = "batch" -> 8
      [] blk = "symbol" -> 9
      [] blk = "qty" -> 10
      [] blk = "end" -> 11

LinesWith(cmd) == {k \in 1..Len(zpl.v) : zpl.v[k].cmd = cmd}
LinesOf(blk) == {k \in 1..Len(zpl.v) : zpl.v[k].blk = blk}

\* C21: a document is a sequence of instructions that starts with its only
\* ^XA and ends with its only ^XZ; its blocks come in the order header bar,
\* brand, category, product name, identifier, created line, QR, batch
\* number, weekly symbol, quantity line; the weekly symbol and the quantity
\* line are in every document.
C21_DocumentStructure ==
    zpl.done =>
        /\ LinesWith("^XA") = {1}
        /\ LinesWith("^XZ") = {Len(zpl.v)}
        /\ \A k \in 1..(Len(zpl.v) - 1) :
              BlockRank(zpl.v[k].blk) <= BlockRank(zpl.v[k + 1].blk)
        /\ LinesOf("bar") # {}
        /\ \E k \in LinesOf("symbol") : zpl.v[k].cmd = "^FO^GFA"
        /\ BlockTexts("qty") # {}

\* a label of week 18 on which every block is present
C21_Witness ==
    /\ zpl.done
    /\ \A blk \in {"start", "bar", "brand", "category", "product", "uid", "created", "qr",
                   "batch", "symbol", "qty", "end"} : LinesOf(blk) # {}
    /\ \E k \in LinesOf("symbol") : zpl.v[k].icon = 18

-----------------------------------------------------------------------------
(* The quantity line.                                                      *)

\* C22: the quantity line reads "Case Qty: N/A" exactly when the record has
\* no case size to display (Units_Per_Case_Num <= 0), and a whole case size
\* is printed as its integer digits, without a decimal point.
C22_QuantityLine ==
    zpl.done =>
        /\ (BlockTexts("qty") = {CaseQtyNA}) <=> ~UnitsPositive(label_row)
        /\ (UnitsPositive(label_row) /\ FIsIntegral(label_row.Units_Per_Case_Num)) =>
              /\ BlockTexts("qty") =
                    {<<67, 97, 115, 101, 32, 81, 116, 121, 58, 32>>
                     \o IntToText(FTrunc(label_row.Units_Per_Case_Num))}
              /\ \A t \in BlockTexts("qty") : \A i \in 1..Len(t) : t[i] # 46

\* case size "1e2" is printed as "Case Qty: 100"
C22_Witness ==
    /\ zpl.done
    /\ label_row.Units_Per_Case = Str(<<49, 101, 50>>)
    /\ BlockTexts("qty") = {<<67, 97, 115, 101, 32, 81, 116, 121, 58, 32, 49, 48, 48>>}

-----------------------------------------------------------------------------
(* generate_label_zpl applied to long texts.                               *)

MaxWords == 3           \* product names have at most this many words

\* the lengths of the words of a product name, and of a brand
WordLengths == {5, 30, 51, 54}
BrandLengths == {0, 5, 53, 54}
\* the lengths of the category, identifier and created-at texts
CategoryLengths == {7, 66, 67}
IdentifierLengths == {4, 24, 40}
CreatedLengths == {10, 60}

\* the character c, n times
Rep(c, n) == [i \in 1..n |-> c]

\* words "AAA..." of the given lengths, separated by single spaces
WordsText(lens) == JoinTexts([k \in 1..Len(lens) |-> Rep(65, lens[k])], <<32>>)

\* "BBB... - " in front of a product name, nothing for a name without brand
BrandPrefix(n) == IF n = 0 THEN <<>> ELSE Rep(66, n) \o <<32, 45, 32>>

LongNames ==
    {Str(BrandPrefix(b) \o WordsText(lens)) :
        b \in BrandLengths, lens \in UNION {[1..n -> WordLengths] : n \in 1..MaxWords}}

\* a created-at text of n characters: "2025-01-15" for 10, "xxx..." otherwise
CreatedText(n) ==
    IF n = 10 THEN <<50, 48, 50, 53, 45, 48, 49, 45, 49, 53>> ELSE Rep(120, n)

\* packages with a long product name, and packages with long category,
\* identifier and created-at texts
LayoutPackages ==
    {[PackageCatalog[1] EXCEPT !.Distru_Product = name] : name \in LongNames}
    \cup {[PackageCatalog[1] EXCEPT !.Category = Str(Rep(67, c)),
                                    !.Package_Label = Str(Rep(85, u)),
                                    !.Created_At_UTC = Str(CreatedText(t))] :
             c \in CategoryLengths, u \in IdentifierLengths, t \in CreatedLengths}

\* case sizes "25" and "1e9"
LayoutProducts ==
    {<<[ProductsTable[1] EXCEPT !.Units_Per_Case = units]>> :
        units \in {Str(<<50, 53>>), Str(<<49, 101, 57>>)}}

InitLayout ==
    /\ \E package \in LayoutPackages, products \in LayoutProducts :
          label_row = merge_data_sources(Frame(PackageColumns, <<package>>),
                                         Frame(ProductColumns, products)).rows[1]
    /\ zpl = NotCalled
    /\ IdleSplit /\ IdleWeek /\ IdleGen /\ IdleNum /\ IdleBrand /\ IdleMerge /\ IdleSlot /\ IdleFilter

SpecLayout == InitLayout /\ [][NextLabel]_vars

-----------------------------------------------------------------------------
(* Properties of the text layout.                                          *)

IsProductText(line) == line.blk = "product" /\ IsTextLine(line)

\* the product-name lines of the label, top to bottom
ProductTexts ==
    LET ls == SelectSeq(zpl.v, IsProductText) IN [k \in 1..Len(ls) |-> ls[k].text]

\* the text that is wrapped: the name without its brand, or the whole name
ProductDisplay ==
    IF Present(label_row.Product_Clean) THEN label_row.Product_Clean.s
    ELSE StrOf(label_row.Product_Name)

\* the lines of the greedy wrap of a text, all of them
GreedyLines(text) ==
    LET w == WrapWords(Words(text), <<>>, <<>>)
    IN  IF w[2] # <<>> THEN Append(w[1], w[2]) ELSE w[1]

Ellipsis(line) == SubSeq(line, 1, max_chars - 3) \o <<46, 46, 46>>

\* the two lines printed for a wrap of three lines or more, the second one
\* being cut when it is longer than limit
TwoLines(wrapped, limit) ==
    <<wrapped[1], IF Len(wrapped[2]) > limit THEN Ellipsis(wrapped[2]) ELSE wrapped[2]>>

Wrapped == Len(ProductDisplay) > max_chars

\* C23: wrapping prints at most two lines; when the greedy wrap gave a third
\* line it is dropped and the second line is cut to max_chars - 3 characters
\* and "..." only if it is longer than max_chars, and is unchanged otherwise.
C23_SecondLineCutBeyondMaxChars ==
    (zpl.done /\ Wrapped) =>
        /\ Len(ProductTexts) <= 2
        /\ Len(GreedyLines(ProductDisplay)) > 2 =>
              ProductTexts = TwoLines(GreedyLines(ProductDisplay), max_chars)

\* C24: a brand longer than max_chars (53) is printed as its first
\* max_chars - 3 characters and "...", never more than max_chars characters;
\* a brand of at most max_chars characters is printed as it is.
C24_BrandTruncation ==
    (zpl.done /\ Present(label_row.Brand)) =>
        /\ max_chars = 53
        /\ \A t \in BlockTexts("brand") : Len(t) <= max_chars
        /\ BlockTexts("brand") =
              {IF Len(label_row.Brand.s) > max_chars
               THEN SubSeq(label_row.Brand.s, 1, max_chars - 3) \o <<46, 46, 46>>
               ELSE label_row.Brand.s}

\* a brand of 54 characters is printed as 50 characters and "..."
C24_Witness ==
    /\ zpl.done
    /\ Present(label_row.Brand) /\ Len(label_row.Brand.s) = 54
    /\ BlockTexts("brand") = {Rep(66, 50) \o <<46, 46, 46>>}

\* C25: every product-name line of a document has at most max_chars
\* characters.
C25_ProductLinesFit ==
    zpl.done => \A k \in 1..Len(ProductTexts) : Len(ProductTexts[k]) <= max_chars

\* the lines that place a field with ^FO
HasOrigin(line) == line.cmd \in {"^FO^FD", "^FO^GB", "^FO^BQN", "^FO^GFA"}

\* C30: every field-origin x coordinate of a document is at least 0 and
\* less than the width of the canvas.
C30_OriginsOnCanvas ==
    zpl.done =>
        \A k \in 1..Len(zpl.v) :
            HasOrigin(zpl.v[k]) => (zpl.v[k].x >= 0 /\ zpl.v[k].x < width_dots)

-----------------------------------------------------------------------------
(* The announced label count and the batch on offer.                       *)

\* C26: the number of labels announced on the Generate button, total_labels,
\* is the number of documents generate_all_labels returns when the button is
\* pressed.
C26_AnnouncedCountIsGenerated ==
    [][(clicks' = clicks + 1) => Len(labels'.v) = total_labels(df, label_mode)]_vars

\* the download button and the print launcher are shown
BatchOffered == ~IsNa(zpl_content) /\ df # <<>> /\ total_labels(df, label_mode) > 0

\* C27: a batch on offer for download or copy is the batch that generation
\* gives for the current records, overrides and mode, and label_count is its
\* number of documents.
C27_OfferedBatchIsCurrent ==
    BatchOffered =>
        /\ zpl_content = JoinLabels(generate_all_labels(df, label_mode, now))
        /\ label_count = Len(generate_all_labels(df, label_mode, now))


-----------------------------------------------------------------------------
(* The filters of the Generate Labels tab, run on processed data.          *)

MaxFilterRows == 2      \* packages in the processed data

\* "2025-01-dd"
DayText(d) == <<50, 48, 50, 53, 45, 48, 49, 45, 48 + (d \div 10), 48 + (d % 10)>>

FilterPackage(product, label, created, status) ==
    [Distru_Product |-> Str(product), Package_Label |-> Str(label), Quantity |-> Str(<<49, 48>>),
     Distru_Batch_Number |-> None, Status |-> status, Location |-> None,
     Created_At_UTC |-> created, Category |-> None]

Camino == <<67, 97, 109, 105, 110, 111, 32, 45, 32, 71, 117, 109, 109, 105, 101, 115>>
Plain == <<80, 108, 97, 105, 110>>
Active == Str(<<65, 99, 116, 105, 118, 101>>)
Sold == Str(<<83, 111, 108, 100>>)

\* packages of "Camino - Gummies" (in the products table, vendor Kiva) and of
\* "Plain" (not in the products table: no vendor), created on Wednesday
\* 2025-01-15, the day before, the Monday before, the week before, or with no
\* creation time
FilterCatalog == <<
    FilterPackage(Camino, <<65, 48, 48, 49>>, Str(DayText(15)), Active),
    FilterPackage(Plain, <<66, 48, 48, 50>>, Str(DayText(15)), Active),
    FilterPackage(Camino, <<67, 48, 48, 51>>, Str(DayText(14)), Sold),
    FilterPackage(Plain, <<68, 48, 48, 52>>, Str(DayText(13)), Active),
    FilterPackage(Camino, <<69, 48, 48, 53>>, Str(DayText(6)), None),
    FilterPackage(Plain, <<70, 48, 48, 54>>, None, Active) >>

FilterImports ==
    UNION {{[i \in 1..n |-> FilterCatalog[f[i]]] :
                f \in {g \in [1..n -> 1..Len(FilterCatalog)] :
                          \A i, j \in 1..n : i # j => g[i] # g[j]}} : n \in 1..MaxFilterRows}

\* datetime.now(TIMEZONE).date()
FilterDays == {[y |-> 2025, m |-> 1, d |-> 15], [y |-> 2025, m |-> 1, d |-> 16]}

QuickSelections == {"today", "yesterday", "this_week", "all"}

\* the end of one run of the tab: the vendor widget, then the four filters
RunVendors(rows, dates, statuses, brands, wst, wbr, wvn, available_vendors) ==
    [widgets |-> [statuses |-> wst, brands |-> wbr, vendors |-> wvn \cap available_vendors],
     selections |-> Selections(dates, statuses, brands,
                               Selected(available_vendors, wvn \cap available_vendors)),
     filtered |-> ApplyFilters(rows, Selections(dates, statuses, brands,
                               Selected(available_vendors, wvn \cap available_vendors)))]

RunBrands(rows, dates, statuses, wst, wbr, wvn, available_brands) ==
    RunVendors(rows, dates, statuses, Selected(available_brands, wbr \cap available_brands),
               wst, wbr \cap available_brands, wvn,
               Available(BrandFiltered(rows, dates, statuses,
                                       Selected(available_brands, wbr \cap available_brands)),
                         "Vendor"))

RunStatuses(rows, dates, wst, wbr, wvn, available_statuses) ==
    RunBrands(rows, dates, Selected(available_statuses, wst \cap available_statuses),
              wst \cap available_statuses, wbr, wvn,
              Available(StatusFiltered(rows, dates,
                                       Selected(available_statuses, wst \cap available_statuses)),
                        "Brand"))

RunDates(rows, dates, chosen) ==
    RunStatuses(rows, dates, chosen.statuses, chosen.brands, chosen.vendors,
                Available(DateFiltered(rows, dates), "Status"))

\* one run of the tab with the quick selection: a multiselect holds the
\* values chosen for it that are among its options
RunFilters(rows, selection, today, chosen) ==
    RunDates(rows,
             IF Available(rows, "Created_Date") # {}
             THEN QuickDates(Available(rows, "Created_Date"), selection, today)
             ELSE {},
             chosen)

\* the values of the multiselects on first load: "Active" when it is a
\* status option, no brand, no vendor
FirstLoad == [statuses |-> {Active}, brands |-> {}, vendors |-> {}]

Shown(run) ==
    /\ widgets' = run.widgets
    /\ selections' = run.selections
    /\ filtered_df' = [done |-> TRUE, v |-> run.filtered]

InitFilter ==
    /\ \E packages \in FilterImports, today \in FilterDays :
          /\ packages_df = Frame(PackageColumns, packages)
          /\ now = today
    /\ products_df = Frame(ProductColumns, SessionProducts)
    /\ merge_result = [done |-> TRUE, v |-> merge_data_sources(packages_df, products_df)]
    /\ processed_data = merge_result.v
    /\ packages_data = packages_df
    /\ products_data = products_df
    /\ uploads = 1
    /\ date_value = None
    /\ week_num = NotCalled
    /\ date_selection = "today"
    /\ widgets = RunFilters(processed_data.rows, "today", now, FirstLoad).widgets
    /\ selections = RunFilters(processed_data.rows, "today", now, FirstLoad).selections
    /\ filtered_df = [done |-> TRUE,
                      v |-> RunFilters(processed_data.rows, "today", now, FirstLoad).filtered]
    /\ IdleSplit /\ IdleGen /\ IdleNum /\ IdleBrand /\ IdleSlot /\ IdleLabel

\* one of the four quick-select buttons, and the run that follows
ClickQuickSelect ==
    /\ Available(processed_data.rows, "Created_Date") # {}
    /\ \E selection \in QuickSelections :
          /\ date_selection' = selection
          /\ Shown(RunFilters(processed_data.rows, selection, now, widgets))
    /\ UNCHANGED <<splitVars, weekVars, genVars, numVars, brandVars, mergeVars, slotVars,
                   labelVars>>

\* a change of the status, brand or vendor multiselect, and the run that follows
ChangeMultiselect ==
    /\ \E wst \in SUBSET Available(processed_data.rows, "Status"),
          wbr \in SUBSET Available(processed_data.rows, "Brand"),
          wvn \in SUBSET Available(processed_data.rows, "Vendor") :
          /\ RunFilters(processed_data.rows, date_selection, now,
                        [statuses |-> wst, brands |-> wbr, vendors |-> wvn]).widgets
                = [statuses |-> wst, brands |-> wbr, vendors |-> wvn]
          /\ [statuses |-> wst, brands |-> wbr, vendors |-> wvn] # widgets
          /\ Shown(RunFilters(processed_data.rows, date_selection, now,
                              [statuses |-> wst, brands |-> wbr, vendors |-> wvn]))
    /\ UNCHANGED <<date_selection, splitVars, weekVars, genVars, numVars, brandVars, mergeVars,
                   slotVars, labelVars>>

NextFilter == ClickQuickSelect \/ ChangeMultiselect

SpecFilter == InitFilter /\ [][NextFilter]_vars

-----------------------------------------------------------------------------
(* Properties of the filters.                                              *)

Today == Ymd2Ord(now.y, now.m, now.d)

CreatedToday(row) == ~IsNa(row.Created_Date) /\ OrdinalOf(row.Created_Date) = Today

\* C28: while the quick date selection is "today", every record of the
\* filtered set was created today, and the filtered set is empty when no
\* record was created today.
C28_TodayShowsOnlyToday ==
    (filtered_df.done /\ date_selection = "today") =>
        \A i \in 1..Len(filtered_df.v) : CreatedToday(filtered_df.v[i])

\* C29: when no vendor is chosen in the vendor multiselect, the vendor filter
\* removes no record: the filtered set is what the date, brand and status
\* filters alone leave, rows without vendor included.
C29_NoVendorChosenKeepsAll ==
    (filtered_df.done /\ widgets.vendors = {}) =>
        filtered_df.v = ApplyFilters(processed_data.rows,
                                     Selections(selections.dates, selections.statuses,
                                                selections.brands, {}))

=============================================================================
